---- MODULE Spec2Model ----
(***************************************************************************)
(* The match engine of multi_battle (class GameRoom, the game-logic file   *)
(* with the three modes 'coop', 'deathmatch' and 'deathmatch_bots') as a    *)
(* state machine.                                                          *)
(*                                                                         *)
(* Numbers.  The code keeps positions in JavaScript doubles and moves      *)
(* tanks by 1.5, 1.0 and 0.8 pixels.  The model keeps every length in      *)
(* tenths of a pixel, as integers with exact arithmetic: Px(n) is n pixels.*)
(* The three speeds are written in tenths (15, 10, 8).  Times are integer   *)
(* milliseconds.  Distances are compared by their squares.                 *)
(*                                                                         *)
(* Math.random() is an oracle: a tick (or start()) receives a short list   *)
(* of draws, each a value of RandomDraws (thousandths), and every call     *)
(* site reads one of them.                                                 *)
(*                                                                         *)
(* maps.js is not among the source files: the maps and the three           *)
(* spawn-point lists below are a fixture written for the model.            *)
(***************************************************************************)
EXTENDS Integers, Sequences, FiniteSets, TLC

VARIABLES
    room,        \* the GameRoom object: its fields, and ev, the log of its last tick()
    timers,      \* the interval handles setInterval has made and clearInterval has not cleared
    nextHandle,  \* how many interval handles have been made
    nextSocket,  \* how many sockets have connected (socket ids are never reused)
    snapshot,    \* the object the last getState() returned
    ticks,       \* how many times tick() has run
    halted,      \* the last of the start() and stop() calls was stop()
    otherRoom,       \* a second GameRoom made from the same map, if any
    mapTiles,    \* the tiles array of the map the rooms are made from, as it is in memory
    entry        \* the entry of the room in the registry of server.js, and its timeouts

vars == <<room, timers, nextHandle, nextSocket, snapshot, ticks, halted, otherRoom, mapTiles, entry>>

\* ---------------------------------------------------------------- constants
TILE_SIZE     == 16
MAP_COLS      == 26
MAP_ROWS      == 26
TANK_SIZE     == 14
BULLET_SPEED  == 5
BULLET_SIZE   == 4
\* speeds, in tenths of a pixel per tick (1.5, 1.0, 0.8 in the code)
TANK_SPEED    == 15
BOT_SPEED     == 10
ENEMY_SPEED   == 8

MAX_ENEMIES   == 4
TOTAL_ENEMIES == 20

DM_FRAG_LIMIT       == 20
DM_RESPAWN_DELAY_MS == 2000
DM_MAX_BOTS         == 4

ENEMY_SHOOT_INTERVAL == 2000
ENEMY_MOVE_INTERVAL  == 800

\* timer values the code writes as literals
JOIN_SHIELD     == 3000
RESPAWN_SHIELD  == 2000
BOT_SHIELD      == 2000
PLAYER_COOLDOWN == 380
BOT_COOLDOWN    == 500
ENEMY_SPAWN_MS  == 3000
KILL_POINTS     == 100
COOP_LIVES      == 3
\* JavaScript's Infinity (lives in deathmatch, the minimum over no distances)
Infinity        == 1000000000

Px(n) == n * 10

DIR_UP    == 0
DIR_RIGHT == 1
DIR_DOWN  == 2
DIR_LEFT  == 3
DX == <<0, 1, 0, -1>>
DY == <<-1, 0, 1, 0>>
dxOf(dir) == DX[dir + 1]
dyOf(dir) == DY[dir + 1]

PLAYER_COLORS == <<"#FFD700", "#00BFFF", "#FF6347", "#98FB98",
                   "#FF69B4", "#FFA500", "#00FFFF", "#DA70D6">>
BOT_NAMES == <<"ROBO-X", "IRON-T", "STEEL-K", "MECH-Q", "CYBER", "METAL", "DREAD", "BLAZE">>

\* ------------------------------------------------------------------ fixture
\* Tile codes: 0 empty, 1 brick, 2 steel, 3 water, 4 bush, 5 base (eagle).
\* Both maps are a small arena in the top-left corner of the 26x26 grid,
\* walled by steel; everything outside the arena is empty.
\*
\*   coop map            col 0 1 2 3 4 5      deathmatch maps   col 0 1 2 3 4 5 6 7
\*            row 0          S e S e S S               row 0        S S S S S S S S
\*            row 1          S p B p b S               row 1        S d W d W d E S
\*            row 2          S . h . W S               row 2        S . b d h . . S
\*            row 3          S p . p . S               row 3        S S S S S S S S
\*            row 4          S S S S S S
\*   S steel, b brick, W water, h bush, B/E base, e enemy spawn,
\*   p player spawn, d deathmatch spawn.
CoopSteel == {<<0, 0>>, <<2, 0>>, <<4, 0>>, <<5, 0>>, <<0, 1>>, <<5, 1>>,
              <<0, 2>>, <<5, 2>>, <<0, 3>>, <<5, 3>>,
              <<0, 4>>, <<1, 4>>, <<2, 4>>, <<3, 4>>, <<4, 4>>, <<5, 4>>}
CoopTile(c, r) ==
    IF <<c, r>> \in CoopSteel THEN 2
    ELSE IF <<c, r>> = <<2, 1>> THEN 5
    ELSE IF <<c, r>> = <<4, 1>> THEN 1
    ELSE IF <<c, r>> = <<2, 2>> THEN 4
    ELSE IF <<c, r>> = <<4, 2>> THEN 3
    ELSE 0

DMTile(c, r) ==
    IF c \in 0..7 /\ r \in {0, 3} THEN 2
    ELSE IF c \in {0, 7} /\ r \in 1..2 THEN 2
    ELSE IF <<c, r>> \in {<<2, 1>>, <<4, 1>>} THEN 3
    ELSE IF <<c, r>> = <<6, 1>> THEN 5
    ELSE IF <<c, r>> = <<2, 2>> THEN 1
    ELSE IF <<c, r>> = <<4, 2>> THEN 4
    ELSE 0

\* the grid as the array of MAP_COLS * MAP_ROWS tiles, row after row
TileAt(map, c, r) == IF map = "coop" THEN CoopTile(c, r) ELSE DMTile(c, r)
RECURSIVE RowFrom(_, _, _)
RowFrom(map, r, c) ==
    IF c >= MAP_COLS THEN <<>> ELSE <<TileAt(map, c, r)>> \o RowFrom(map, r, c + 1)
RECURSIVE GridFrom(_, _)
GridFrom(map, r) ==
    IF r >= MAP_ROWS THEN <<>> ELSE RowFrom(map, r, 0) \o GridFrom(map, r + 1)
CoopTiles == GridFrom("coop", 0)
DMTiles   == GridFrom("deathmatch", 0)

\* MAPS[mapIndex + 1]
MAPS == << [name |-> "Classic",   mode |-> "coop",            tiles |-> CoopTiles],
           [name |-> "Arena",     mode |-> "deathmatch",      tiles |-> DMTiles],
           [name |-> "Arena+Bots", mode |-> "deathmatch_bots", tiles |-> DMTiles] >>

SPAWN_POINTS    == << [x |-> 1, y |-> 1], [x |-> 3, y |-> 1], [x |-> 1, y |-> 3], [x |-> 3, y |-> 3] >>
DM_SPAWN_POINTS == << [x |-> 1, y |-> 1], [x |-> 3, y |-> 1], [x |-> 5, y |-> 1], [x |-> 3, y |-> 2] >>
ENEMY_SPAWNS    == << [x |-> 1, y |-> 0], [x |-> 3, y |-> 0] >>

\* ------------------------------------------------------------------- oracle
\* Math.random() in thousandths: 0, 0.45, 0.7, 0.999 reach every branch of
\* every comparison the code makes on a draw.
RandomDraws == {0, 450, 700, 999}
\* draw k (0-based call-site number) of the list rnd
Draw(rnd, k) == rnd[(k % Len(rnd)) + 1]

\* ------------------------------------------------------- GameRoom: helpers
isDMMode(m) == m = "deathmatch" \/ m = "deathmatch_bots"

\* getSpawnPoint(idx): idx is 0-based
getSpawnPoint(s, idx) ==
    LET pts == IF s.isDM THEN DM_SPAWN_POINTS ELSE SPAWN_POINTS
    IN  pts[(idx % Len(pts)) + 1]

\* this.mapData[ty * MAP_COLS + tx]
TileOf(mapData, tx, ty) == mapData[ty * MAP_COLS + tx + 1]

\* Object.keys(this.players).indexOf(id): 0-based, -1 when absent
RECURSIVE IndexOfFrom(_, _, _)
IndexOfFrom(seq, id, i) ==
    IF i > Len(seq) THEN -1
    ELSE IF seq[i].id = id THEN i - 1
    ELSE IndexOfFrom(seq, id, i + 1)
PlayerIndex(s, id) == IndexOfFrom(s.players, id, 1)

\* seq without its i-th element (Array.prototype.splice(i, 1), delete players[id])
RemoveAt(seq, i) == SubSeq(seq, 1, i - 1) \o SubSeq(seq, i + 1, Len(seq))

\* ---------------------------------------------------- movement / collision
_collidesWithTiles(s, x, y) ==
    LET x1 == x \div Px(TILE_SIZE)
        y1 == y \div Px(TILE_SIZE)
        x2 == (x + Px(TANK_SIZE - 1)) \div Px(TILE_SIZE)
        y2 == (y + Px(TANK_SIZE - 1)) \div Px(TILE_SIZE)
    IN  \E ty \in y1..y2, tx \in x1..x2 :
            \/ tx < 0 \/ ty < 0 \/ tx >= MAP_COLS \/ ty >= MAP_ROWS
            \/ TileOf(s.mapData, tx, ty) \notin {0, 4}

\* the open-interval overlap test of two tank boxes
TankBoxesOverlap(nx, ny, other) ==
    /\ nx < other.x + Px(TANK_SIZE) /\ nx + Px(TANK_SIZE) > other.x
    /\ ny < other.y + Px(TANK_SIZE) /\ ny + Px(TANK_SIZE) > other.y

\* entity is s[kind][i], kind one of "players", "bots", "enemies"
_collidesWithTanks(s, kind, i, nx, ny) ==
    \E k \in {"players", "bots", "enemies"} : \E j \in 1..Len(s[k]) :
        /\ ~(k = kind /\ j = i)
        /\ s[k][j].alive
        /\ TankBoxesOverlap(nx, ny, s[k][j])

\* the tanks of the room as a move finds or leaves them: identifier, place,
\* facing and alive of every player, bot and enemy, in this order
RECURSIVE TankRows(_, _)
TankRows(seq, i) ==
    IF i > Len(seq) THEN <<>>
    ELSE << <<seq[i].id, seq[i].x, seq[i].y, seq[i].dir, seq[i].alive>> >>
             \o TankRows(seq, i + 1)
Tanks(s) == TankRows(s.players, 1) \o TankRows(s.bots, 1) \o TankRows(s.enemies, 1)
\* the row of s[kind][i] in Tanks(s)
TankRow(s, kind, i) ==
    IF kind = "players" THEN i
    ELSE IF kind = "bots" THEN Len(s.players) + i
    ELSE Len(s.players) + Len(s.bots) + i

\* variant of the move: the other tanks do not stand in the way
MoveOrStayThrough(s, kind, i, nx, ny) ==
    IF \/ nx < 0 \/ ny < 0
       \/ nx + Px(TANK_SIZE) > Px(MAP_COLS * TILE_SIZE)
       \/ ny + Px(TANK_SIZE) > Px(MAP_ROWS * TILE_SIZE)
    THEN s
    ELSE IF ~_collidesWithTiles(s, nx, ny)
    THEN [s EXCEPT ![kind][i].x = nx, ![kind][i].y = ny]
    ELSE s

\* the body of _tryMove, (nx, ny) the corner of the target box
MoveOrStay(s, kind, i, nx, ny) ==
    IF \/ nx < 0 \/ ny < 0
       \/ nx + Px(TANK_SIZE) > Px(MAP_COLS * TILE_SIZE)
       \/ ny + Px(TANK_SIZE) > Px(MAP_ROWS * TILE_SIZE)
    THEN s
    ELSE IF ~_collidesWithTiles(s, nx, ny) /\ ~_collidesWithTanks(s, kind, i, nx, ny)
    THEN [s EXCEPT ![kind][i].x = nx, ![kind][i].y = ny]
    ELSE s

\* the log keeps the tanks as the move found them in s and left them in t
LogMove(s, t, kind, i, dx, dy) ==
    [t EXCEPT !.ev = Append(@, [t |-> "move", kind |-> kind, row |-> TankRow(s, kind, i),
                                dx |-> dx, dy |-> dy,
                                before |-> Tanks(s), after |-> Tanks(t)])]

_tryMove(s, kind, i, dx, dy) ==
    LogMove(s, MoveOrStay(s, kind, i, s[kind][i].x + dx, s[kind][i].y + dy),
            kind, i, dx, dy)

\* ------------------------------------------------------------------ bullets
_fireBullet(s, source, team) ==
    LET cx == source.x + Px(TANK_SIZE) \div 2
        cy == source.y + Px(TANK_SIZE) \div 2
        b  == [ id      |-> s.nextBulletId,
                x       |-> cx - Px(BULLET_SIZE) \div 2 + dxOf(source.dir) * (Px(TANK_SIZE) \div 2),
                y       |-> cy - Px(BULLET_SIZE) \div 2 + dyOf(source.dir) * (Px(TANK_SIZE) \div 2),
                dir     |-> source.dir,
                speed   |-> Px(BULLET_SPEED),
                team    |-> team,
                ownerId |-> source.id ]
    IN  [s EXCEPT !.bullets = Append(@, b), !.nextBulletId = @ + 1,
                  !.ev = Append(@, [t |-> "fire", bullet |-> b.id, team |-> team,
                                    owner |-> source.id, x |-> b.x, y |-> b.y,
                                    dir |-> b.dir])]

_bulletHits(b, tank) ==
    /\ b.x < tank.x + Px(TANK_SIZE) /\ b.x + Px(BULLET_SIZE) > tank.x
    /\ b.y < tank.y + Px(TANK_SIZE) /\ b.y + Px(BULLET_SIZE) > tank.y

\* The working state of a tick is the room plus ev, a log of what the tick
\* did (hits, projectile resolutions, respawns); ev is not a field of the
\* program, it is what the properties below read.
Log(s, e) == [s EXCEPT !.ev = Append(@, e)]

\* the least member of a set of indices, 0 when it is empty (a for loop
\* returning on its first match); the greatest (a loop running from the end)
First(S) == IF S = {} THEN 0 ELSE CHOOSE i \in S : \A j \in S : i <= j
Last(S)  == IF S = {} THEN 0 ELSE CHOOSE i \in S : \A j \in S : i >= j

\* ---------------------------------------------------------- coop: hits
\* variant of _hitPlayer: if (p.lives < 0), one life too late
_hitPlayerLate(s, i) ==
    LET lives == s.players[i].lives - 1
        spawn == SPAWN_POINTS[((i - 1) % Len(SPAWN_POINTS)) + 1]
    IN  IF lives < 0
        THEN [s EXCEPT !.players[i].lives = lives, !.players[i].alive = FALSE]
        ELSE [s EXCEPT !.players[i].lives  = lives,
                       !.players[i].x      = Px(spawn.x * TILE_SIZE + 1),
                       !.players[i].y      = Px(spawn.y * TILE_SIZE + 1),
                       !.players[i].shield = RESPAWN_SHIELD]

\* _hitPlayer(p, killer), p = players[i]
_hitPlayer(s, i) ==
    LET lives == s.players[i].lives - 1
        spawn == SPAWN_POINTS[((i - 1) % Len(SPAWN_POINTS)) + 1]
    IN  IF lives <= 0
        THEN [s EXCEPT !.players[i].lives = lives, !.players[i].alive = FALSE]
        ELSE [s EXCEPT !.players[i].lives  = lives,
                       !.players[i].x      = Px(spawn.x * TILE_SIZE + 1),
                       !.players[i].y      = Px(spawn.y * TILE_SIZE + 1),
                       !.players[i].shield = RESPAWN_SHIELD]

\* variant of the guard: the shield is not looked at
CoopTargetableShielded(p) == p.alive

\* the guard of the loop over players in _resolveCoopHit
CoopTargetable(p) == p.alive /\ ~(p.shield > 0)

HitEvent(b, victim, vkind) ==
    [ t |-> "hit", bullet |-> b.id, owner |-> b.ownerId, team |-> b.team,
      victim |-> victim.id, vkind |-> vkind, alive |-> victim.alive,
      shield |-> IF vkind = "enemies" THEN 0 ELSE victim.shield ]

\* variant of the credit: the points go to the first player of the room
CreditFirstPlayer(s, owner) ==
    IF Len(s.players) > 0 THEN [s EXCEPT !.players[1].score = @ + KILL_POINTS] ELSE s

\* if (this.players[b.ownerId]) this.players[b.ownerId].score += 100
CreditOwner(s, owner) ==
    IF owner > 0 THEN [s EXCEPT !.players[owner].score = @ + KILL_POINTS] ELSE s

\* the enemy branch of _resolveCoopHit: remove enemy j, credit the owner
KillEnemy(s, b, j) ==
    CreditOwner([s EXCEPT !.enemies = RemoveAt(@, j), !.enemiesOnField = @ - 1],
                PlayerIndex(s, b.ownerId) + 1)

\* the first player an enemy bullet hits (0: none)
CoopPlayerHit(s, b) ==
    First({k \in 1..Len(s.players) :
              CoopTargetable(s.players[k]) /\ _bulletHits(b, s.players[k])})
\* the enemy a player bullet hits, the loop running from the end (0: none)
CoopEnemyHit(s, b) ==
    Last({k \in 1..Len(s.enemies) :
             s.enemies[k].alive /\ _bulletHits(b, s.enemies[k])})

HitPlayerAt(s, b, i) ==
    IF i > 0
    THEN [s |-> _hitPlayer(Log(s, HitEvent(b, s.players[i], "players")), i), dead |-> TRUE]
    ELSE [s |-> s, dead |-> FALSE]
HitEnemyAt(s, b, j) ==
    IF j > 0
    THEN [s |-> KillEnemy(Log(s, HitEvent(b, s.enemies[j], "enemies")), b, j), dead |-> TRUE]
    ELSE [s |-> s, dead |-> FALSE]

\* variant of _resolveCoopHit: the team of the bullet is not looked at, it
\* is tested against the players and then against the enemies
_resolveCoopHitAnyTeam(s, b) ==
    IF CoopPlayerHit(s, b) > 0
    THEN HitPlayerAt(s, b, CoopPlayerHit(s, b))
    ELSE HitEnemyAt(s, b, CoopEnemyHit(s, b))

\* returns [s, dead]
_resolveCoopHit(s, b) ==
    IF b.team = "enemy"
    THEN HitPlayerAt(s, b, CoopPlayerHit(s, b))
    ELSE HitEnemyAt(s, b, CoopEnemyHit(s, b))

\* ---------------------------------------------------- deathmatch: hits
\* variant of the guard: a combatant that is not alive is not skipped
DMTargetableDead(t, b) == t.id # b.ownerId /\ ~(t.shield > 0)

\* variant of the guard: the owner of the bullet is not skipped
DMTargetableOwner(t, b) == t.alive /\ ~(t.shield > 0)

\* the guard of the loop over allTargets in _resolveDMHit
DMTargetable(t, b) == t.alive /\ t.id # b.ownerId /\ ~(t.shield > 0)

\* allTargets = [...players, ...bots]: its n-th member as a reference
\* <<kind, index>>, and the entity a reference names
NumCombatants(s) == Len(s.players) + Len(s.bots)
Combatant(s, n) ==
    IF n <= Len(s.players) THEN <<"players", n>> ELSE <<"bots", n - Len(s.players)>>
Ent(s, ref) == s[ref[1]][ref[2]]

\* this.players[ownerId] || this.bots.find(bt => bt.id === ownerId): a
\* reference, or <<>> when the owner has left
KillerRef(pi, bi) ==
    IF pi > 0 THEN <<"players", pi>> ELSE IF bi > 0 THEN <<"bots", bi>> ELSE <<>>
FindKiller(s, ownerId) ==
    KillerRef(PlayerIndex(s, ownerId) + 1, IndexOfFrom(s.bots, ownerId, 1) + 1)

\* variant of the credit: the frag is counted twice
FragTwice(s, killer) ==
    IF killer # <<>> THEN [s EXCEPT ![killer[1]][killer[2]].score = @ + 2] ELSE s

\* variant of the credit: a frag of a bot is not counted
FragHumansOnly(s, killer) ==
    IF killer # <<>> /\ killer[1] = "players"
    THEN [s EXCEPT ![killer[1]][killer[2]].score = @ + 1]
    ELSE s

\* if (killer) killer.score++
Frag(s, killer) ==
    IF killer # <<>> THEN [s EXCEPT ![killer[1]][killer[2]].score = @ + 1] ELSE s

\* variant of _dmKill: the victim is pushed on the queue twice
_dmKillQueuedTwice(s, victim, killer) ==
    [Frag([s EXCEPT ![victim[1]][victim[2]].alive  = FALSE,
                    ![victim[1]][victim[2]].deaths = @ + 1], killer)
        EXCEPT !.respawnQueue =
            @ \o << [entity |-> Ent(s, victim).id, timer |-> DM_RESPAWN_DELAY_MS,
                     since |-> 0],
                    [entity |-> Ent(s, victim).id, timer |-> DM_RESPAWN_DELAY_MS,
                     since |-> 0] >>]

\* (an entry of the queue also keeps, in since, the tick time that has passed
\* since it was pushed: the sum of the dt of the ticks that counted it down)
_dmKill(s, victim, killer) ==
    [Frag([s EXCEPT ![victim[1]][victim[2]].alive  = FALSE,
                    ![victim[1]][victim[2]].deaths = @ + 1], killer)
        EXCEPT !.respawnQueue =
            Append(@, [entity |-> Ent(s, victim).id, timer |-> DM_RESPAWN_DELAY_MS,
                       since |-> 0])]

\* the first of allTargets the bullet hits (0: none)
DMHit(s, b) ==
    First({n \in 1..NumCombatants(s) :
              /\ DMTargetable(Ent(s, Combatant(s, n)), b)
              /\ _bulletHits(b, Ent(s, Combatant(s, n)))})

KillAt(s, b, victim) ==
    [s |-> _dmKill(Log(s, HitEvent(b, Ent(s, victim), victim[1])),
                   victim, FindKiller(s, b.ownerId)),
     dead |-> TRUE]

DMHitAt(s, b, k) ==
    IF k > 0 THEN KillAt(s, b, Combatant(s, k)) ELSE [s |-> s, dead |-> FALSE]

\* returns [s, dead]
_resolveDMHit(s, b) == DMHitAt(s, b, DMHit(s, b))

\* ------------------------------------------------------- _updateBullets
\* variant of the base branch: the cell is cleared and the end of the match
\* is left to _checkGameOver
HitBaseDeferred(s, idx) ==
    [s EXCEPT !.mapData[idx + 1] = 0, !.baseDestroyed = TRUE]

\* the base branch of the tile check: the eagle is destroyed
HitBase(s, idx) ==
    [s EXCEPT !.mapData[idx + 1] = 0, !.baseDestroyed = TRUE,
              !.gameOver = TRUE, !.winner = "enemies"]

\* variant of the tile check: steel gives way like brick
BulletTileAtSoft(s, idx, tile) ==
    IF tile = 1 \/ tile = 2
    THEN [s |-> [s EXCEPT !.mapData[idx + 1] = 0], dead |-> TRUE]
    ELSE IF tile = 5 /\ s.mode = "coop"
    THEN [s |-> HitBase(s, idx), dead |-> TRUE]
    ELSE [s |-> s, dead |-> FALSE]

\* variant of the tile check: an empty cell stops the bullet
BulletTileAtEmpty(s, idx, tile) ==
    IF tile = 1
    THEN [s |-> [s EXCEPT !.mapData[idx + 1] = 0], dead |-> TRUE]
    ELSE IF tile = 2 \/ tile = 0
    THEN [s |-> s, dead |-> TRUE]
    ELSE IF tile = 5 /\ s.mode = "coop"
    THEN [s |-> HitBase(s, idx), dead |-> TRUE]
    ELSE [s |-> s, dead |-> FALSE]

\* variant of the tile check: the base falls in every mode
BulletTileAtAnyMode(s, idx, tile) ==
    IF tile = 1
    THEN [s |-> [s EXCEPT !.mapData[idx + 1] = 0], dead |-> TRUE]
    ELSE IF tile = 2
    THEN [s |-> s, dead |-> TRUE]
    ELSE IF tile = 5
    THEN [s |-> HitBase(s, idx), dead |-> TRUE]
    ELSE [s |-> s, dead |-> FALSE]

\* the tile check on the cell idx holding tile; returns [s, dead]
BulletTileAt(s, idx, tile) ==
    IF tile = 1
    THEN [s |-> [s EXCEPT !.mapData[idx + 1] = 0], dead |-> TRUE]
    ELSE IF tile = 2
    THEN [s |-> s, dead |-> TRUE]
    ELSE IF tile = 5 /\ s.mode = "coop"
    THEN [s |-> HitBase(s, idx), dead |-> TRUE]
    ELSE [s |-> s, dead |-> FALSE]

\* the tile check of bullet b in cell (tx, ty), logging the tile it finds there
BulletCell(s, b, tx, ty) ==
    IF tx >= 0 /\ ty >= 0 /\ tx < MAP_COLS /\ ty < MAP_ROWS
    THEN BulletTileAt(Log(s, [t |-> "enter", bullet |-> b.id, cell |-> ty * MAP_COLS + tx,
                              tile |-> s.mapData[ty * MAP_COLS + tx + 1]]),
                      ty * MAP_COLS + tx, s.mapData[ty * MAP_COLS + tx + 1])
    ELSE [s |-> s, dead |-> FALSE]

BulletTiles(s, b) ==
    BulletCell(s, b, (b.x + Px(BULLET_SIZE) \div 2) \div Px(TILE_SIZE),
                  (b.y + Px(BULLET_SIZE) \div 2) \div Px(TILE_SIZE))

BulletOutOfBounds(b) ==
    \/ b.x < 0 \/ b.y < 0
    \/ b.x >= Px(MAP_COLS * TILE_SIZE) \/ b.y >= Px(MAP_ROWS * TILE_SIZE)

\* the tank that the hit resolution of the mode of s finds for bullet b
\* ("null": none); the log keeps it for a bullet that the bounds or a tile stop
WouldHit(s, b) ==
    IF s.isDM
    THEN (IF DMHit(s, b) > 0 THEN Ent(s, Combatant(s, DMHit(s, b))).id ELSE "null")
    ELSE IF b.team = "enemy"
    THEN (IF CoopPlayerHit(s, b) > 0 THEN s.players[CoopPlayerHit(s, b)].id ELSE "null")
    ELSE (IF CoopEnemyHit(s, b) > 0 THEN s.enemies[CoopEnemyHit(s, b)].id ELSE "null")

\* variant of the removal: splice(i + 1, 1), one place off
RemoveDeadNext(r, b, i, cause) ==
    IF r.dead
    THEN [Log(r.s, [t |-> "resolve", bullet |-> b.id, cause |-> cause,
                    over |-> IF cause = "hit" THEN "null" ELSE WouldHit(r.s, b)])
             EXCEPT !.bullets = RemoveAt(@, i + 1)]
    ELSE r.s

\* if (dead) this.bullets.splice(i, 1), logging what resolved the bullet
RemoveDead(r, b, i, cause) ==
    IF r.dead
    THEN [Log(r.s, [t |-> "resolve", bullet |-> b.id, cause |-> cause,
                    over |-> IF cause = "hit" THEN "null" ELSE WouldHit(r.s, b)])
             EXCEPT !.bullets = RemoveAt(@, i)]
    ELSE r.s

BulletHitStep(s, b, i) ==
    RemoveDead(IF s.isDM THEN _resolveDMHit(s, b) ELSE _resolveCoopHit(s, b), b, i, "hit")

BulletTileStep(r, b, i) ==
    IF r.dead THEN RemoveDead(r, b, i, "tile") ELSE BulletHitStep(r.s, b, i)

\* variant of the body: the hit resolution comes first
BulletStepHitFirst(s, b, i) ==
    IF (IF s.isDM THEN _resolveDMHit(s, b) ELSE _resolveCoopHit(s, b)).dead
    THEN RemoveDead(IF s.isDM THEN _resolveDMHit(s, b) ELSE _resolveCoopHit(s, b), b, i, "hit")
    ELSE IF BulletOutOfBounds(b)
    THEN RemoveDead([s |-> s, dead |-> TRUE], b, i, "bounds")
    ELSE IF BulletTiles(s, b).dead
    THEN RemoveDead(BulletTiles(s, b), b, i, "tile")
    ELSE BulletTiles(s, b).s

\* the body of the loop after the move: bounds, tiles, hit resolution
BulletStep(s, b, i) ==
    IF BulletOutOfBounds(b)
    THEN RemoveDead([s |-> s, dead |-> TRUE], b, i, "bounds")
    ELSE BulletTileStep(BulletTiles(s, b), b, i)

MoveBullet(b) ==
    [b EXCEPT !.x = @ + dxOf(b.dir) * b.speed, !.y = @ + dyOf(b.dir) * b.speed]

\* one iteration of the loop of _updateBullets, for bullets[i]
UpdateBullet(s, i) ==
    BulletStep([s EXCEPT !.bullets[i] = MoveBullet(@)], MoveBullet(s.bullets[i]), i)

RECURSIVE UpdateBulletsFrom(_, _)
UpdateBulletsFrom(s, i) ==
    IF i < 1 \/ i > Len(s.bullets) THEN s
    ELSE UpdateBulletsFrom(UpdateBullet(s, i), i - 1)
_updateBullets(s) == UpdateBulletsFrom(s, Len(s.bullets))

\* ------------------------------------------------- deathmatch: respawns
\* squared distance between a tank and the corner (px, py) of a spawn tile
Dist2(e, px, py) == (e.x - px) * (e.x - px) + (e.y - py) * (e.y - py)

\* the least of a set of distances, Infinity for the empty set
MinOrInfinity(S) == IF S = {} THEN Infinity ELSE CHOOSE m \in S : \A n \in S : m <= n

\* living.reduce((m, e) => Math.min(m, hypot(e.x - px, e.y - py)), Infinity),
\* squared; living = every alive player and bot other than the entity
MinDist2(s, id, pt) ==
    MinOrInfinity({ Dist2(Ent(s, Combatant(s, k)), Px(pt.x * TILE_SIZE), Px(pt.y * TILE_SIZE)) :
                    k \in { n \in 1..NumCombatants(s) :
                              /\ Ent(s, Combatant(s, n)).alive
                              /\ Ent(s, Combatant(s, n)).id # id } })

\* the minDist of every spawn point from point k on, as the loop measures them
RECURSIVE SpawnDists(_, _, _)
SpawnDists(s, id, k) ==
    IF k > Len(DM_SPAWN_POINTS) THEN <<>>
    ELSE <<MinDist2(s, id, DM_SPAWN_POINTS[k])>> \o SpawnDists(s, id, k + 1)

\* the loop over pts of _dmRespawn from point k on: the index of best
RECURSIVE BestSpawnFrom(_, _, _, _, _)
\* variant of the comparison: a nearer point replaces the best
BestSpawnStepNearest(s, id, k, best, maxMinDist, minDist) ==
    IF minDist < maxMinDist \/ maxMinDist < 0
    THEN BestSpawnFrom(s, id, k + 1, k, minDist)
    ELSE BestSpawnFrom(s, id, k + 1, best, maxMinDist)
BestSpawnStep(s, id, k, best, maxMinDist, minDist) ==
    IF minDist > maxMinDist
    THEN BestSpawnFrom(s, id, k + 1, k, minDist)
    ELSE BestSpawnFrom(s, id, k + 1, best, maxMinDist)
BestSpawnFrom(s, id, k, best, maxMinDist) ==
    IF k > Len(DM_SPAWN_POINTS) THEN best
    ELSE BestSpawnStep(s, id, k, best, maxMinDist, MinDist2(s, id, DM_SPAWN_POINTS[k]))

\* r: the draw of Math.random() that picks the initial best
BestSpawn(s, id, r) ==
    BestSpawnFrom(s, id, 1, ((r * Len(DM_SPAWN_POINTS)) \div 1000) + 1, -1)

\* the entity ref placed at spawn point k
RespawnAt(s, id, ref, k) ==
    IF ref = <<>> THEN s
    ELSE [Log(s, [t |-> "respawn", entity |-> id, point |-> k,
                  dists |-> SpawnDists(s, id, 1)])
            EXCEPT ![ref[1]][ref[2]].x      = Px(DM_SPAWN_POINTS[k].x * TILE_SIZE + 1),
                   ![ref[1]][ref[2]].y      = Px(DM_SPAWN_POINTS[k].y * TILE_SIZE + 1),
                   ![ref[1]][ref[2]].alive  = TRUE,
                   ![ref[1]][ref[2]].shield = RESPAWN_SHIELD]

\* _dmRespawn(entity); an entity that has left the match is a detached
\* object: respawning it changes nothing the room holds
_dmRespawn(s, id, r) == RespawnAt(s, id, FindKiller(s, id), BestSpawn(s, id, r))

\* one iteration of the loop of _processRespawns, for respawnQueue[i]
ProcessRespawn(s, i, r) ==
    IF s.respawnQueue[i].timer <= 0
    THEN [_dmRespawn(Log(s, [t |-> "dequeue", entity |-> s.respawnQueue[i].entity,
                             since |-> s.respawnQueue[i].since, draw |-> r]),
                     s.respawnQueue[i].entity, r)
             EXCEPT !.respawnQueue = RemoveAt(@, i)]
    ELSE s

RECURSIVE ProcessRespawnsFrom(_, _, _, _)
ProcessRespawnsFrom(s, i, dt, rnd) ==
    IF i < 1 \/ i > Len(s.respawnQueue) THEN s
    ELSE ProcessRespawnsFrom(
             ProcessRespawn([s EXCEPT !.respawnQueue[i].timer = @ - dt,
                                      !.respawnQueue[i].since = @ + dt],
                            i, Draw(rnd, i - 1)),
             i - 1, dt, rnd)
_processRespawns(s, dt, rnd) == ProcessRespawnsFrom(s, Len(s.respawnQueue), dt, rnd)

\* ------------------------------------------------------ _updatePlayers
\* variant of the chain: down is looked at before up
PlayerMoveDownFirst(s, i, inp, speed) ==
    IF inp.down
    THEN _tryMove([s EXCEPT !.players[i].dir = DIR_DOWN], "players", i, 0, speed)
    ELSE IF inp.up
    THEN _tryMove([s EXCEPT !.players[i].dir = DIR_UP], "players", i, 0, -speed)
    ELSE IF inp.left
    THEN _tryMove([s EXCEPT !.players[i].dir = DIR_LEFT], "players", i, -speed, 0)
    ELSE IF inp.right
    THEN _tryMove([s EXCEPT !.players[i].dir = DIR_RIGHT], "players", i, speed, 0)
    ELSE s

\* the if / else if chain over the direction inputs
PlayerMove(s, i, inp, speed) ==
    IF inp.up
    THEN _tryMove([s EXCEPT !.players[i].dir = DIR_UP], "players", i, 0, -speed)
    ELSE IF inp.down
    THEN _tryMove([s EXCEPT !.players[i].dir = DIR_DOWN], "players", i, 0, speed)
    ELSE IF inp.left
    THEN _tryMove([s EXCEPT !.players[i].dir = DIR_LEFT], "players", i, -speed, 0)
    ELSE IF inp.right
    THEN _tryMove([s EXCEPT !.players[i].dir = DIR_RIGHT], "players", i, speed, 0)
    ELSE s

\* variant of the shot: the cooldown is not looked at
PlayerShootUngated(s, i, inp) ==
    IF inp.shoot
    THEN [_fireBullet(s, s.players[i], "player") EXCEPT !.players[i].bulletCooldown = PLAYER_COOLDOWN]
    ELSE s

PlayerShoot(s, i, inp) ==
    IF inp.shoot /\ s.players[i].bulletCooldown <= 0
    THEN [_fireBullet(s, s.players[i], "player") EXCEPT !.players[i].bulletCooldown = PLAYER_COOLDOWN]
    ELSE s

\* the body of the loop of _updatePlayers for players[i]
UpdatePlayer(s, i) ==
    IF ~s.players[i].alive THEN s
    ELSE PlayerShoot(
             [PlayerMove(s, i, s.players[i].inputs, s.players[i].speed)
                 EXCEPT !.players[i].moving =
                     \/ s.players[i].inputs.up   \/ s.players[i].inputs.down
                     \/ s.players[i].inputs.left \/ s.players[i].inputs.right],
             i, s.players[i].inputs)

RECURSIVE UpdatePlayersFrom(_, _)
UpdatePlayersFrom(s, i) ==
    IF i > Len(s.players) THEN s ELSE UpdatePlayersFrom(UpdatePlayer(s, i), i + 1)
_updatePlayers(s) == UpdatePlayersFrom(s, 1)

\* ------------------------------------------------------------ identifiers
SocketIds    == <<"s1", "s2", "s3", "s4", "s5", "s6", "s7", "s8", "s9", "s10">>
DefaultNames == <<"Player1", "Player2", "Player3", "Player4", "Player5", "Player6", "Player7", "Player8">>
BotIds       == <<"bot_0", "bot_1", "bot_2", "bot_3", "bot_4", "bot_5", "bot_6", "bot_7", "bot_8">>
EnemyIds     == <<"e0", "e1", "e2", "e3", "e4", "e5", "e6", "e7", "e8", "e9", "e10", "e11", "e12", "e13", "e14", "e15", "e16", "e17", "e18", "e19", "e20">>

\* ------------------------------------------------------------- bots (AI)
Abs(n) == IF n < 0 THEN -n ELSE n

\* Math.floor(Math.random() * 4)
RandomDir(r) == (r * 4) \div 1000

\* face the target along the axis with the greater delta
AimDir(dx, dy) ==
    IF Abs(dx) > Abs(dy)
    THEN (IF dx > 0 THEN DIR_RIGHT ELSE DIR_LEFT)
    ELSE (IF dy > 0 THEN DIR_DOWN ELSE DIR_UP)

\* the squared distance from bots[j] to the combatant ref
TargetDist2(s, j, ref) == Dist2(Ent(s, ref), s.bots[j].x, s.bots[j].y)

\* the candidates of the nearest-target loop: alive and not bots[j]
Targets(s, j) ==
    { n \in 1..NumCombatants(s) :
        Combatant(s, n) # <<"bots", j>> /\ Ent(s, Combatant(s, n)).alive }

\* the first of the nearest candidates (d < nearestDist keeps the first of
\* equally near targets): a reference, or <<>>
NearestOf(s, j, cand) ==
    IF cand = {} THEN <<>>
    ELSE Combatant(s, CHOOSE n \in cand : \A m \in cand :
            \/ TargetDist2(s, j, Combatant(s, n)) < TargetDist2(s, j, Combatant(s, m))
            \/ /\ TargetDist2(s, j, Combatant(s, n)) = TargetDist2(s, j, Combatant(s, m))
               /\ n <= m)
Nearest(s, j) == NearestOf(s, j, Targets(s, j))

\* the bot made by iteration i of the loop of _spawnBots
NewBot(s, i, spawn, rnd) ==
    [ id             |-> BotIds[s.nextBotId + 1],
      name           |-> BOT_NAMES[(i % 8) + 1],
      x              |-> Px(spawn.x * TILE_SIZE + 1),
      y              |-> Px(spawn.y * TILE_SIZE + 1),
      dir            |-> DIR_DOWN,
      alive          |-> TRUE,
      lives          |-> Infinity,
      score          |-> 0,
      deaths         |-> 0,
      speed          |-> BOT_SPEED,
      moving         |-> FALSE,
      color          |-> "#CC2222",
      shield         |-> BOT_SHIELD,
      bulletCooldown |-> 0,
      isBot          |-> TRUE,
      moveTimer      |-> Draw(rnd, 2 * i),
      shootTimer     |-> 2 * Draw(rnd, 2 * i + 1),
      targetId       |-> "null",
      respawnTimer   |-> 0 ]

\* the loop of _spawnBots from bot i on; the spawn index counts the players
\* and the bots already made
RECURSIVE SpawnBotsFrom(_, _, _)
SpawnBotsFrom(s, i, rnd) ==
    IF i >= DM_MAX_BOTS THEN s
    ELSE SpawnBotsFrom(
             [s EXCEPT !.bots = Append(@, NewBot(s, i, getSpawnPoint(s, Len(s.players) + i), rnd)),
                       !.nextBotId = @ + 1],
             i + 1, rnd)

_spawnBots(s, rnd) ==
    SpawnBotsFrom(s, 0, rnd)

\* the second decrement of the two countdowns of a bot in one tick
BotCountdown(s, j, dt) ==
    [s EXCEPT !.bots[j].bulletCooldown = IF @ > 0 THEN @ - dt ELSE @,
              !.bots[j].shield         = IF @ > 0 THEN @ - dt ELSE @]

\* the direction picked when moveTimer runs out
BotDir(s, j, rnd, nearest) ==
    IF nearest # <<>>
    THEN (IF Draw(rnd, 3 * (j - 1)) < 600
          THEN AimDir(Ent(s, nearest).x - s.bots[j].x, Ent(s, nearest).y - s.bots[j].y)
          ELSE RandomDir(Draw(rnd, 3 * (j - 1) + 1)))
    ELSE RandomDir(Draw(rnd, 3 * (j - 1)))

BotSteer(s, j, dt, rnd, nearest) ==
    IF s.bots[j].moveTimer + dt > ENEMY_MOVE_INTERVAL
    THEN [s EXCEPT !.bots[j].moveTimer = 0, !.bots[j].dir = BotDir(s, j, rnd, nearest)]
    ELSE [s EXCEPT !.bots[j].moveTimer = @ + dt]

\* after _tryMove from (prevX, prevY): turn when blocked; the shoot timer
Moved(s, kind, j, prevX, prevY, dt) ==
    [s EXCEPT ![kind][j].dir = IF s[kind][j].x = prevX /\ s[kind][j].y = prevY
                               THEN (@ + 1) % 4 ELSE @,
              ![kind][j].moving = TRUE,
              ![kind][j].shootTimer = @ + dt]

Advance(s, kind, j, dt) ==
    Moved(_tryMove(s, kind, j, dxOf(s[kind][j].dir) * s[kind][j].speed,
                               dyOf(s[kind][j].dir) * s[kind][j].speed),
          kind, j, s[kind][j].x, s[kind][j].y, dt)

BotAim(s, j, nearest) ==
    [s EXCEPT !.bots[j].shootTimer = 0,
              !.bots[j].dir = IF nearest # <<>>
                              THEN AimDir(Ent(s, nearest).x - s.bots[j].x,
                                          Ent(s, nearest).y - s.bots[j].y)
                              ELSE @]

BotFire(s, j) ==
    [_fireBullet(s, s.bots[j], "bot") EXCEPT !.bots[j].bulletCooldown = BOT_COOLDOWN]

BotShoot(s, j, rnd, nearest) ==
    IF /\ s.bots[j].shootTimer > 1500 + Draw(rnd, 3 * (j - 1) + 2)
       /\ s.bots[j].bulletCooldown <= 0
    THEN BotFire(BotAim(s, j, nearest), j)
    ELSE s

BotAct(s, j, dt, rnd, nearest) ==
    BotShoot(Advance(BotSteer(s, j, dt, rnd, nearest), "bots", j, dt), j, rnd, nearest)

\* the body of the loop of _updateBots for bots[j]
UpdateBot(s, j, dt, rnd) ==
    IF ~s.bots[j].alive THEN s
    ELSE BotAct(BotCountdown(s, j, dt), j, dt, rnd, Nearest(s, j))

RECURSIVE UpdateBotsFrom(_, _, _, _)
UpdateBotsFrom(s, j, dt, rnd) ==
    IF j > Len(s.bots) THEN s ELSE UpdateBotsFrom(UpdateBot(s, j, dt, rnd), j + 1, dt, rnd)
_updateBots(s, dt, rnd) == UpdateBotsFrom(s, 1, dt, rnd)

\* ------------------------------------------------------ classic enemies
\* spawnEnemy(); r is the draw for shootTimer = Math.random() * 2000
NewEnemy(s, spawnPt, r) ==
    [ id         |-> EnemyIds[s.nextEnemyId + 1],
      x          |-> Px(spawnPt.x * TILE_SIZE + 1),
      y          |-> Px(spawnPt.y * TILE_SIZE + 1),
      dir        |-> DIR_DOWN,
      alive      |-> TRUE,
      isEnemy    |-> TRUE,
      speed      |-> ENEMY_SPEED,
      moveTimer  |-> 0,
      shootTimer |-> 2 * r,
      moving     |-> FALSE ]

\* variant of spawnEnemy(): the quota is not drawn upon
spawnEnemyUncounted(s, r) ==
    IF s.enemiesRemaining <= 0 THEN s
    ELSE [s EXCEPT !.enemies = Append(@, NewEnemy(s,
                        ENEMY_SPAWNS[(s.nextEnemyId % Len(ENEMY_SPAWNS)) + 1], r)),
                   !.nextEnemyId = @ + 1,
                   !.enemiesOnField = @ + 1]

spawnEnemy(s, r) ==
    IF s.enemiesRemaining <= 0 THEN s
    ELSE [s EXCEPT !.enemies = Append(@, NewEnemy(s,
                        ENEMY_SPAWNS[(s.nextEnemyId % Len(ENEMY_SPAWNS)) + 1], r)),
                   !.nextEnemyId = @ + 1,
                   !.enemiesOnField = @ + 1, !.enemiesRemaining = @ - 1]

\* the direction a classic enemy picks from a draw
EnemyDir(r) ==
    IF r < 400 THEN DIR_DOWN
    ELSE IF r < 600 THEN DIR_LEFT
    ELSE IF r < 800 THEN DIR_RIGHT
    ELSE DIR_UP

EnemySteer(s, j, dt, rnd) ==
    IF s.enemies[j].moveTimer + dt > ENEMY_MOVE_INTERVAL
    THEN [s EXCEPT !.enemies[j].moveTimer = 0, !.enemies[j].dir = EnemyDir(Draw(rnd, j))]
    ELSE [s EXCEPT !.enemies[j].moveTimer = @ + dt]

EnemyShoot(s, j) ==
    IF s.enemies[j].shootTimer > ENEMY_SHOOT_INTERVAL
    THEN _fireBullet([s EXCEPT !.enemies[j].shootTimer = 0], s.enemies[j], "enemy")
    ELSE s

\* the body of the loop of _updateClassicEnemies for enemies[j]
UpdateEnemy(s, j, dt, rnd) ==
    IF ~s.enemies[j].alive THEN s
    ELSE EnemyShoot(Advance(EnemySteer(s, j, dt, rnd), "enemies", j, dt), j)

RECURSIVE UpdateEnemiesFrom(_, _, _, _)
UpdateEnemiesFrom(s, j, dt, rnd) ==
    IF j > Len(s.enemies) THEN s ELSE UpdateEnemiesFrom(UpdateEnemy(s, j, dt, rnd), j + 1, dt, rnd)
_updateClassicEnemies(s, dt, rnd) == UpdateEnemiesFrom(s, 1, dt, rnd)

\* this.enemySpawnTimer += dt and the spawn that follows, in tick()
TrySpawn(s, rnd) ==
    IF /\ s.enemySpawnTimer > ENEMY_SPAWN_MS
       /\ s.enemiesOnField < MAX_ENEMIES
       /\ s.enemiesRemaining > 0
    THEN [spawnEnemy(s, Draw(rnd, 0)) EXCEPT !.enemySpawnTimer = 0]
    ELSE s
SpawnStep(s, dt, rnd) == TrySpawn([s EXCEPT !.enemySpawnTimer = @ + dt], rnd)

\* ------------------------------------------------------- _checkGameOver
\* the deathmatch branch: the first combatant at the frag limit wins
Declare(s, k) ==
    IF k > 0
    THEN [s EXCEPT !.gameOver = TRUE, !.winner = Ent(s, Combatant(s, k)).name,
                   !.winnerId = Ent(s, Combatant(s, k)).id]
    ELSE s
\* variant of the scan: the last combatant at the limit is declared
FragWinnerLast(s) ==
    Declare(s, Last({n \in 1..NumCombatants(s) :
                        Ent(s, Combatant(s, n)).score >= s.fragLimit}))

\* the scan of allCombatants in the deathmatch branch
FragWinner(s) ==
    Declare(s, First({n \in 1..NumCombatants(s) :
                         Ent(s, Combatant(s, n)).score >= s.fragLimit}))

\* variant of the coop branch: the quota test is off by one
CoopOverLate(s) ==
    IF /\ \A i \in 1..Len(s.players) : ~(s.players[i].lives > 0)
       /\ Len(s.players) > 0
    THEN [s EXCEPT !.gameOver = TRUE, !.winner = "enemies"]
    ELSE IF s.enemiesRemaining < 0 /\ Len(s.enemies) = 0
    THEN [s EXCEPT !.gameOver = TRUE, !.winner = "players"]
    ELSE s

\* the coop branch
CoopOver(s) ==
    IF /\ \A i \in 1..Len(s.players) : ~(s.players[i].lives > 0)
       /\ Len(s.players) > 0
    THEN [s EXCEPT !.gameOver = TRUE, !.winner = "enemies"]
    ELSE IF s.enemiesRemaining <= 0 /\ Len(s.enemies) = 0
    THEN [s EXCEPT !.gameOver = TRUE, !.winner = "players"]
    ELSE s

_checkGameOver(s) ==
    IF s.gameOver THEN s
    ELSE IF s.isDM THEN FragWinner(s)
    ELSE CoopOver(s)

\* ------------------------------------------------------------------ tick
\* the "Timers" loops of tick()
Countdown(e, dt) ==
    [e EXCEPT !.shield         = IF @ > 0 THEN @ - dt ELSE @,
              !.bulletCooldown = IF @ > 0 THEN @ - dt ELSE @]
RECURSIVE CountdownFrom(_, _, _, _)
CountdownFrom(s, kind, i, dt) ==
    IF i > Len(s[kind]) THEN s
    ELSE CountdownFrom([s EXCEPT ![kind][i] = Countdown(@, dt)], kind, i + 1, dt)
Timers(s, dt) == CountdownFrom(CountdownFrom(s, "players", 1, dt), "bots", 1, dt)

\* the per-mode part of tick() before the players move, and after
Respawns(s, dt, rnd) == IF s.isDM THEN _processRespawns(s, dt, rnd) ELSE s
Opponents(s, dt, rnd) ==
    IF s.isDM THEN _updateBots(s, dt, rnd)
    ELSE _updateClassicEnemies(SpawnStep(s, dt, rnd), dt, rnd)

\* variant of the body of tick(): _checkGameOver is called before
\* _updateBullets
RunTickEvalFirst(s, dt, rnd) ==
    _updateBullets(_checkGameOver(
        Opponents(_updatePlayers(Respawns(Timers(Log(s, [t |-> "tick", dt |-> dt]), dt),
                                          dt, rnd)), dt, rnd)))

\* the body of tick() after its first four lines; the log opens with the
\* elapsed time dt the tick computed
RunTick(s, dt, rnd) ==
    _checkGameOver(_updateBullets(
        Opponents(_updatePlayers(Respawns(Timers(Log(s, [t |-> "tick", dt |-> dt]), dt),
                                          dt, rnd)), dt, rnd)))

\* variant of tick(): one that lacks "if (this.gameOver) return"
tickUnguarded(s, dt, rnd) == RunTick(s, dt, rnd)

\* tick() with elapsed time dt = now - lastUpdate and the draws rnd; the log
\* records the tick that returned at once because the match was over
tick(s, dt, rnd) ==
    IF s.gameOver THEN Log(s, [t |-> "over"])
    ELSE RunTick(s, dt, rnd)

\* ----------------------------------------------------------------- bounds
MaxTicks  == 2
MaxJoins  == 3
MaxStarts == 2
BotJoins  == 1
BotStarts == 1
RndLen    == 1

\* ------------------------------------------------------------ constructor
\* new GameRoom(id, mapIndex); lastUpdate is the clock's business: a tick
\* receives dt = now - lastUpdate as its input
\* variant of the copy: this.mapData = map.tiles, the array of the map itself
AliasedTiles == "MAPS"

\* the array [...map.tiles] makes: a new one, the room's own
CopiedTiles == "own"

NewRoom(mapIndex) ==
    [ mapIndex         |-> mapIndex,
      mapData          |-> MAPS[mapIndex + 1].tiles,
      mapRef           |-> CopiedTiles,
      mode             |-> MAPS[mapIndex + 1].mode,
      isDM             |-> isDMMode(MAPS[mapIndex + 1].mode),
      maxPlayers       |-> IF isDMMode(MAPS[mapIndex + 1].mode) THEN 8 ELSE 4,
      players          |-> <<>>,
      bots             |-> <<>>,
      bullets          |-> <<>>,
      enemies          |-> <<>>,
      nextBulletId     |-> 0,
      nextEnemyId      |-> 0,
      nextBotId        |-> 0,
      enemiesRemaining |-> IF MAPS[mapIndex + 1].mode = "coop" THEN TOTAL_ENEMIES ELSE 0,
      enemiesOnField   |-> 0,
      baseDestroyed    |-> FALSE,
      fragLimit        |-> DM_FRAG_LIMIT,
      gameOver         |-> FALSE,
      winner           |-> "null",
      winnerId         |-> "null",
      tickInterval     |-> 0,
      enemySpawnTimer  |-> 0,
      respawnQueue     |-> <<>>,
      ev               |-> <<>> ]

NoSnapshot == [taken |-> FALSE]
\* no second room has been made
NoRoom == [mapRef |-> "none"]
\* new GameRoom(id, mapIndex) when the array of the map holds tiles
GameRoom(mapIndex, tiles) == [NewRoom(mapIndex) EXCEPT !.mapData = tiles]

\* no entry of the registry is looked at: the room is driven directly
NoEntry ==
    [ listed |-> FALSE, isSystem |-> FALSE, game |-> FALSE, stateInterval |-> FALSE,
      autoResetTimer |-> 0, emptyDestroyTimer |-> 0, sockets |-> <<>>,
      pending |-> {}, nextTimeout |-> 0, now |-> 0,
      gen |-> 0, fired |-> 0, spared |-> 0 ]

InitMap(mapIndex) ==
    /\ room = NewRoom(mapIndex)
    /\ entry = NoEntry
    /\ timers = {}
    /\ nextHandle = 0
    /\ nextSocket = 0
    /\ snapshot = NoSnapshot
    /\ ticks = 0
    /\ halted = FALSE
    /\ otherRoom = NoRoom
    /\ mapTiles = MAPS[mapIndex + 1].tiles

Init == \E mapIndex \in 0..(Len(MAPS) - 1) : InitMap(mapIndex)

\* the room as a tick finds it: the log is empty
Work(r) == [r EXCEPT !.ev = <<>>]
\* the fields of the program in r: r less the log
Fields(r) == [r EXCEPT !.ev = <<>>]
\* what the last tick() did: hits, projectile resolutions, respawns
events == room.ev

\* -------------------------------------------------------------- operations
NoInputs == [up |-> FALSE, down |-> FALSE, left |-> FALSE, right |-> FALSE, shoot |-> FALSE]

\* (slot keeps the idx the player joined with, which the code does not store)
NewPlayer(s, socketId, name, idx, spawn) ==
    [ id             |-> socketId,
      slot           |-> idx,
      name           |-> IF name # "" THEN name ELSE DefaultNames[idx + 1],
      x              |-> Px(spawn.x * TILE_SIZE + 1),
      y              |-> Px(spawn.y * TILE_SIZE + 1),
      dir            |-> DIR_UP,
      alive          |-> TRUE,
      lives          |-> IF s.isDM THEN Infinity ELSE COOP_LIVES,
      score          |-> 0,
      deaths         |-> 0,
      speed          |-> TANK_SPEED,
      moving         |-> FALSE,
      color          |-> PLAYER_COLORS[(idx % Len(PLAYER_COLORS)) + 1],
      shield         |-> JOIN_SHIELD,
      bulletCooldown |-> 0,
      isBot          |-> FALSE,
      inputs         |-> NoInputs,
      respawnTimer   |-> 0 ]

\* addPlayer(socketId, name); a name of "" is no name
addPlayer(s, socketId, name) ==
    [s EXCEPT !.players = Append(@,
        NewPlayer(s, socketId, name, Len(s.players), getSpawnPoint(s, Len(s.players))))]

\* removePlayer(socketId): delete this.players[socketId]
\* variant of removePlayer: splice(indexOf(socketId), 1) on the list of
\* players, which takes the last one when the id is not found
removePlayerSplice(s, socketId) ==
    IF PlayerIndex(s, socketId) >= 0
    THEN [s EXCEPT !.players = RemoveAt(@, PlayerIndex(s, socketId) + 1)]
    ELSE [s EXCEPT !.players = RemoveAt(@, Len(@))]

\* variant of handleInput: Object.assign-like merge that keeps a key held
\* down until it is delivered as released twice
handleInputMerge(s, socketId, inputs) ==
    IF PlayerIndex(s, socketId) >= 0
    THEN [s EXCEPT !.players[PlayerIndex(s, socketId) + 1].inputs =
             [up    |-> @.up \/ inputs.up,       down  |-> @.down \/ inputs.down,
              left  |-> @.left \/ inputs.left,   right |-> @.right \/ inputs.right,
              shoot |-> inputs.shoot]]
    ELSE s

removePlayer(s, socketId) ==
    IF PlayerIndex(s, socketId) >= 0
    THEN [s EXCEPT !.players = RemoveAt(@, PlayerIndex(s, socketId) + 1)]
    ELSE s

\* handleInput(socketId, inputs)
handleInput(s, socketId, inputs) ==
    IF PlayerIndex(s, socketId) >= 0
    THEN [s EXCEPT !.players[PlayerIndex(s, socketId) + 1].inputs = inputs]
    ELSE s

\* what start() does before setInterval
Spawns(s, rnd) ==
    IF s.mode = "coop" THEN spawnEnemy(s, Draw(rnd, 0))
    ELSE IF s.mode = "deathmatch_bots" THEN _spawnBots(s, rnd)
    ELSE s

\* start(), h the handle setInterval returns
start(s, h, rnd) == [Spawns(s, rnd) EXCEPT !.tickInterval = h]

\* the entry of a combatant in a snapshot
\* variant of the tank's entry: shield: p.shield, the countdown itself
StateOfTankRaw(p, isBot) ==
    [ id |-> p.id, name |-> p.name, x |-> p.x, y |-> p.y, dir |-> p.dir,
      alive |-> p.alive,
      lives |-> IF ~isBot /\ p.lives < Infinity THEN p.lives ELSE -1,
      score |-> p.score, deaths |-> p.deaths, color |-> p.color,
      shield |-> p.shield, moving |-> p.moving, isBot |-> isBot ]

StateOfTank(p, isBot) ==
    [ id |-> p.id, name |-> p.name, x |-> p.x, y |-> p.y, dir |-> p.dir,
      alive |-> p.alive,
      lives |-> IF ~isBot /\ p.lives < Infinity THEN p.lives ELSE -1,
      score |-> p.score, deaths |-> p.deaths, color |-> p.color,
      shield |-> p.shield > 0, moving |-> p.moving, isBot |-> isBot ]

\* the .map() calls of getState, from element i on
RECURSIVE TankStates(_, _, _)
TankStates(seq, isBot, i) ==
    IF i > Len(seq) THEN <<>>
    ELSE <<StateOfTank(seq[i], isBot)>> \o TankStates(seq, isBot, i + 1)
StateOfEnemy(e) ==
    [ id |-> e.id, x |-> e.x, y |-> e.y, dir |-> e.dir, alive |-> e.alive, moving |-> e.moving ]
RECURSIVE EnemyStates(_, _)
EnemyStates(seq, i) ==
    IF i > Len(seq) THEN <<>> ELSE <<StateOfEnemy(seq[i])>> \o EnemyStates(seq, i + 1)
StateOfBullet(b) ==
    [ id |-> b.id, x |-> b.x, y |-> b.y, dir |-> b.dir,
      isEnemy |-> b.team \in {"enemy", "bot"}, team |-> b.team ]
RECURSIVE BulletStates(_, _)
BulletStates(seq, i) ==
    IF i > Len(seq) THEN <<>> ELSE <<StateOfBullet(seq[i])>> \o BulletStates(seq, i + 1)

\* getState(): every field is copied into a new object except mapData,
\* which is the room's own array: the snapshot holds a reference to it
getState(s) ==
    [ taken            |-> TRUE,
      mode             |-> s.mode,
      players          |-> TankStates(s.players, FALSE, 1),
      bots             |-> TankStates(s.bots, TRUE, 1),
      enemies          |-> EnemyStates(s.enemies, 1),
      bullets          |-> BulletStates(s.bullets, 1),
      gameOver         |-> s.gameOver,
      winner           |-> s.winner,
      winnerId         |-> s.winnerId,
      enemiesRemaining |-> s.enemiesRemaining,
      enemiesOnField   |-> s.enemiesOnField,
      fragLimit        |-> s.fragLimit ]

\* what the holder of the snapshot reads in it now
Contents(snap, r) == snap @@ [mapData |-> r.mapData]

\* the lists of draws an operation can receive, each draw one of vals
Draws(vals) == [1..RndLen -> vals]
NoDraws == [k \in 1..RndLen |-> 0]

\* the draws tick(dt) can read in room r: one list when it reads none
TickDraws(r, dt, vals) ==
    IF r.gameOver THEN {NoDraws}
    ELSE IF r.isDM
    THEN (IF \/ \E j \in 1..Len(r.bots) : r.bots[j].alive
             \/ \E i \in 1..Len(r.respawnQueue) : r.respawnQueue[i].timer - dt <= 0
          THEN Draws(vals) ELSE {NoDraws})
    ELSE (IF \/ Len(r.enemies) > 0
             \/ (r.enemySpawnTimer + dt > ENEMY_SPAWN_MS /\ r.enemiesRemaining > 0)
          THEN Draws(vals) ELSE {NoDraws})

\* ----------------------------------------------------------------- actions
\* a socket connects and joins: addPlayer(socket.id, name)
AddPlayer(names, maxJoins) ==
    /\ nextSocket < maxJoins
    /\ \E name \in names :
           room' = addPlayer(room, SocketIds[nextSocket + 1], name)
    /\ nextSocket' = nextSocket + 1
    /\ UNCHANGED <<timers, nextHandle, snapshot, ticks, halted, otherRoom, mapTiles, entry>>

\* removePlayer of socket number k, for k in ks
RemovePlayer(ks) ==
    /\ \E k \in ks : room' = removePlayer(room, SocketIds[k])
    /\ UNCHANGED <<timers, nextHandle, nextSocket, snapshot, ticks, halted, otherRoom, mapTiles, entry>>

\* handleInput(socket k, inp) for <<k, inp>> in pairs
HandleInput(pairs) ==
    /\ \E pr \in pairs : room' = handleInput(room, SocketIds[pr[1]], pr[2])
    /\ UNCHANGED <<timers, nextHandle, nextSocket, snapshot, ticks, halted, otherRoom, mapTiles, entry>>

\* the deliveries and departures the log of r holds
Arrivals(r) == {i \in 1..Len(r.ev) : r.ev[i].t \in {"input", "leave"}}

\* socket.on('input') of socket k with inp, for <<k, inp>> in pairs; the log
\* keeps what was delivered and whether the room knew the sender, and at
\* most burst of them arrive between two ticks
Input(pairs, burst) ==
    /\ Cardinality(Arrivals(room)) < burst
    /\ \E pr \in pairs :
           room' = Log(handleInput(room, SocketIds[pr[1]], pr[2]),
                       [t |-> "input", id |-> SocketIds[pr[1]], inputs |-> pr[2],
                        known |-> PlayerIndex(room, SocketIds[pr[1]]) >= 0])
    /\ UNCHANGED <<timers, nextHandle, nextSocket, snapshot, ticks, halted, otherRoom, mapTiles, entry>>

\* socket.on('disconnect') of socket k, for k in ks, logged likewise
Disconnect(ks, burst) ==
    /\ Cardinality(Arrivals(room)) < burst
    /\ \E k \in ks :
           room' = Log(removePlayer(room, SocketIds[k]),
                       [t |-> "leave", id |-> SocketIds[k],
                        known |-> PlayerIndex(room, SocketIds[k]) >= 0])
    /\ UNCHANGED <<timers, nextHandle, nextSocket, snapshot, ticks, halted, otherRoom, mapTiles, entry>>

Start(vals, maxStarts) ==
    /\ nextHandle < maxStarts
    /\ \E rnd \in (IF room.mode = "deathmatch" THEN {NoDraws} ELSE Draws(vals)) :
           room' = start(room, nextHandle + 1, rnd)
    /\ timers' = timers \cup {nextHandle + 1}
    /\ nextHandle' = nextHandle + 1
    /\ halted' = FALSE
    /\ UNCHANGED <<nextSocket, snapshot, ticks, otherRoom, mapTiles, entry>>

\* stop(): if (this.tickInterval) clearInterval(this.tickInterval)
Stop ==
    /\ timers' = IF room.tickInterval # 0 THEN timers \ {room.tickInterval} ELSE timers
    /\ halted' = TRUE
    /\ UNCHANGED <<room, nextHandle, nextSocket, snapshot, ticks, otherRoom, mapTiles, entry>>

\* what joinRoom does to the match for a new socket: the two refusals, each
\* an 'error' emitted to the socket, or addPlayer; maxPlayers is the limit
\* createRoom gave the room, 8 for the deathmatch modes and 4 for coop
joinRoom(s, socketId, name) ==
    IF Len(s.players) >= s.maxPlayers
    THEN Log(s, [t |-> "error", id |-> socketId, msg |-> "Room is full"])
    ELSE IF s.gameOver
    THEN Log(s, [t |-> "error", id |-> socketId, msg |-> "Game already over"])
    ELSE Log(addPlayer(s, socketId, name), [t |-> "joinedRoom", id |-> socketId])

\* socket.on('joinRoom') of a socket that has just connected; the log of
\* the room keeps what was emitted to the last one only
JoinRoom(names, maxJoins) ==
    /\ nextSocket < maxJoins
    /\ \E name \in names :
           room' = joinRoom(Work(room), SocketIds[nextSocket + 1], name)
    /\ nextSocket' = nextSocket + 1
    /\ UNCHANGED <<timers, nextHandle, snapshot, ticks, halted, otherRoom, mapTiles, entry>>

\* the loop of restartGame over the sockets of the room: addPlayer for each
\* player from the i-th on
RECURSIVE Rejoin(_, _, _, _)
Rejoin(s, players, i, name) ==
    IF i > Len(players) THEN s
    ELSE Rejoin(addPlayer(s, players[i].id, name), players, i + 1, name)

\* socket.on('restartGame'): the match that is over is stopped and a new
\* GameRoom of the same map takes its place, joined by the same sockets and
\* started
RestartGame(names, vals, maxStarts) ==
    /\ room.gameOver
    /\ nextHandle < maxStarts
    /\ \E name \in names :
       \E rnd \in (IF room.mode = "deathmatch" THEN {NoDraws} ELSE Draws(vals)) :
           room' = start(Rejoin(GameRoom(room.mapIndex, mapTiles), room.players, 1, name),
                         nextHandle + 1, rnd)
    /\ timers' = (IF room.tickInterval # 0 THEN timers \ {room.tickInterval} ELSE timers)
                     \cup {nextHandle + 1}
    /\ nextHandle' = nextHandle + 1
    /\ halted' = FALSE
    /\ UNCHANGED <<nextSocket, snapshot, ticks, otherRoom, mapTiles, entry>>

\* createRoom and the first joinRoom of a second room of the same map:
\* new GameRoom(roomId, room.mapIndex)
CreateRoom ==
    /\ otherRoom = NoRoom
    /\ otherRoom' = GameRoom(room.mapIndex, mapTiles)
    /\ UNCHANGED <<room, timers, nextHandle, nextSocket, snapshot, ticks, halted, mapTiles, entry>>

\* the room after a tick that ended in working state s
Ticked(s) == room' = s

\* what the writes of a step to room.mapData do to the array of the map and
\* to the other room: nothing, unless they share the array
WriteThrough ==
    /\ mapTiles' = IF room'.mapRef = "MAPS" THEN room'.mapData ELSE mapTiles
    /\ otherRoom' = IF room'.mapRef = "MAPS" /\ otherRoom.mapRef = "MAPS"
                THEN [otherRoom EXCEPT !.mapData = room'.mapData]
                ELSE otherRoom

\* an interval that is still set fires: tick()
Tick(dts, vals, maxTicks) ==
    /\ timers # {}
    /\ ticks < maxTicks
    /\ \E dt \in dts : \E rnd \in TickDraws(room, dt, vals) :
           Ticked(tick(Work(room), dt, rnd))
    /\ ticks' = ticks + 1
    /\ WriteThrough
    /\ UNCHANGED <<timers, nextHandle, nextSocket, snapshot, halted, entry>>

GetState ==
    /\ snapshot' = getState(room)
    /\ UNCHANGED <<room, timers, nextHandle, nextSocket, ticks, halted, otherRoom, mapTiles, entry>>

\* ------------------------------------------------------------ input sets
In(u, d, l, r, f) == [up |-> u, down |-> d, left |-> l, right |-> r, shoot |-> f]
Idle       == In(FALSE, FALSE, FALSE, FALSE, FALSE)
Fire       == In(FALSE, FALSE, FALSE, FALSE, TRUE)
RightFire  == In(FALSE, FALSE, FALSE, TRUE, TRUE)
LeftFire   == In(FALSE, FALSE, TRUE, FALSE, TRUE)
Down       == In(FALSE, TRUE, FALSE, FALSE, FALSE)
DownFire   == In(FALSE, TRUE, FALSE, FALSE, TRUE)

\* ---------------------------------------------------------- specification
\* Any interleaving of the operations of a room of any mode with its ticks.
\* A room with bots is given fewer joins and starts: its bots already fill it.
JoinsOf(mode)  == IF mode = "deathmatch_bots" THEN BotJoins ELSE MaxJoins
StartsOf(mode) == IF mode = "deathmatch_bots" THEN BotStarts ELSE MaxStarts

Next ==
    \/ AddPlayer({""}, JoinsOf(room.mode))
    \/ RemovePlayer(1..MaxJoins)
    \/ HandleInput((1..MaxJoins) \X {RightFire})
    \/ Start({0, 999}, StartsOf(room.mode))
    \/ Stop
    \/ Tick({3000}, {0, 999}, MaxTicks)

Spec == Init /\ [][Next]_vars

\* ------------------------------------------------------------- properties
\* every alive player, bot and classic enemy of room r, as references
LiveTanks(r) ==
    { <<k, i>> : k \in {"players", "bots", "enemies"}, i \in 1..(Len(r.players) + Len(r.bots) + Len(r.enemies)) }
    \cap { ref \in {"players", "bots", "enemies"} \X (1..(Len(r.players) + Len(r.bots) + Len(r.enemies))) :
             ref[2] <= Len(r[ref[1]]) /\ r[ref[1]][ref[2]].alive }

InsideGrid(e) ==
    /\ e.x >= 0 /\ e.y >= 0
    /\ e.x + Px(TANK_SIZE) <= Px(MAP_COLS * TILE_SIZE)
    /\ e.y + Px(TANK_SIZE) <= Px(MAP_ROWS * TILE_SIZE)

\* C1: in every reachable state every live combatant's box lies inside the
\* grid, covers no impassable cell and overlaps no other live combatant's box.
Containment ==
    \A ref \in LiveTanks(room) :
        /\ InsideGrid(Ent(room, ref))
        /\ ~_collidesWithTiles(room, Ent(room, ref).x, Ent(room, ref).y)
        /\ \A other \in LiveTanks(room) \ {ref} :
               ~TankBoxesOverlap(Ent(room, ref).x, Ent(room, ref).y, Ent(room, other))

\* C2: once gameOver is set no operation unsets it or changes the recorded
\* winner, and a tick leaves every field of the room as it was.
TerminalFrozen ==
    [][room.gameOver =>
          /\ room'.gameOver
          /\ room'.winner = room.winner /\ room'.winnerId = room.winnerId
          /\ (ticks' # ticks => Fields(room') = Fields(room))]_vars

\* a tick has run on a match that was already over
TickAfterOver == room.gameOver /\ \E i \in 1..Len(events) : events[i].t = "over"

\* the cells of the grid holding the base (tile 5) in room r
BaseCells(r) == {i \in 1..Len(r.mapData) : r.mapData[i] = 5}

\* C10: in a coop room, a step that turns a base cell into an empty cell
\* ends with the match over and won by 'enemies', whatever else the step did.
BaseLossEndsMatch ==
    [][(/\ room.mode = "coop"
        /\ room'.mapData # room.mapData
        /\ \E i \in BaseCells(room) : room'.mapData[i] = 0)
          => room'.gameOver /\ room'.winner = "enemies"]_vars

\* the base fell in the tick in which the last classic enemy was destroyed
BaseAndLastEnemyFell ==
    /\ room.baseDestroyed /\ room.winner = "enemies"
    /\ room.enemiesRemaining = 0 /\ Len(room.enemies) = 0
    /\ \E i \in 1..Len(events) : events[i].t = "hit" /\ events[i].vkind = "enemies"

\* C3: once the last of the start() and stop() calls is stop(), no interval
\* is left to fire a tick.
StopHalts == halted => timers = {}

\* ------------------------------------------------------ snapshots (getState)
SnapJoins == 2
SnapTicks == 2

\* A room of any mode is filled, started once and ticked, and getState() is
\* called at any moment.
NextSnap ==
    \/ AddPlayer({""}, SnapJoins)
    \/ HandleInput((1..SnapJoins) \X {RightFire})
    \/ Start({0}, 1)
    \/ Tick({3000}, {0}, SnapTicks)
    \/ GetState

SpecSnap == Init /\ [][NextSnap]_vars

\* C4: while the holder keeps a snapshot, the terrain grid it reads in it is
\* the grid the snapshot had when getState() returned it.
SnapshotIsCopy ==
    [][(snapshot.taken /\ snapshot' = snapshot)
          => Contents(snapshot', room').mapData = Contents(snapshot, room).mapData]_vars

\* ------------------------------------------------------- a whole coop match
RunJoins == 2
RunTicks == 20

\* Up to two players join a coop room and choose their inputs in the lobby,
\* the match is started once and runs tick by tick; the first player may turn
\* to the right at any moment of the match.  A tick lasts 3001 ms, so that
\* every tick brings one enemy in.
NextRun ==
    \/ (nextHandle = 0 /\ AddPlayer({""}, RunJoins))
    \/ (nextHandle = 0 /\ HandleInput({<<1, Fire>>, <<2, Fire>>}))
    \/ HandleInput({<<1, RightFire>>})
    \/ Start({0, 999}, 1)
    \/ Tick({3001}, {999}, RunTicks)

SpecRun == InitMap(0) /\ [][NextRun]_vars

\* some human has lives left, the quota is spent and no classic enemy is on the field
CoopWon(r) ==
    /\ r.mode = "coop"
    /\ \E i \in 1..Len(r.players) : r.players[i].lives > 0
    /\ r.enemiesRemaining <= 0
    /\ Len(r.enemies) = 0

\* C9 as stated: the tick in which the condition becomes true ends with the
\* match over and won by 'players'.
CoopTermination ==
    [][(ticks' # ticks /\ ~CoopWon(room) /\ CoopWon(room'))
          => room'.gameOver /\ room'.winner = "players"]_vars

\* C9: the tick in which the condition becomes true ends with the match over
\* and won by 'players', unless a projectile destroyed the base in that tick.
CoopTerminationBaseStanding ==
    [][(ticks' # ticks /\ ~CoopWon(room) /\ CoopWon(room') /\ ~room'.baseDestroyed)
          => room'.gameOver /\ room'.winner = "players"]_vars

\* the players have won: the quota is spent, the field is clear, the base stands
PlayersWon ==
    /\ CoopWon(room) /\ ~room.baseDestroyed
    /\ room.gameOver /\ room.winner = "players" /\ ticks > 0

\* ------------------------------------------------------------- whole matches
MatchJoins == 2
MatchTicks == 7

\* Up to two players join a room of any mode and choose their inputs in the
\* lobby (the first fires to the right, the second to the left), the match
\* is started once and runs in ticks of 500 ms or 3000 ms.
NextMatch ==
    \/ (nextHandle = 0 /\ AddPlayer({""}, MatchJoins))
    \/ (nextHandle = 0 /\ HandleInput({<<1, RightFire>>, <<2, LeftFire>>}))
    \/ Start({0, 999}, 1)
    \/ Tick({500, 3000}, {0, 999}, MatchTicks)

SpecMatch == Init /\ [][NextMatch]_vars

\* the hits of the last tick, as indices into its log
Hits == {i \in 1..Len(events) : events[i].t = "hit"}
Resolutions == {i \in 1..Len(events) : events[i].t = "resolve"}
\* the identifiers of the bullets of room r
BulletIds(r) == {r.bullets[i].id : i \in 1..Len(r.bullets)}

\* bullet b of the room lies over tank n of allTargets
Over(i, n) == _bulletHits(room.bullets[i], Ent(room, Combatant(room, n)))

\* C5: no tick resolves a projectile against a human or a bot whose shield
\* countdown is above 0: every hit on one found its shield at 0 or below.
ShieldInvariant ==
    \A i \in Hits : events[i].vkind \in {"players", "bots"} => events[i].shield <= 0

\* after a tick a projectile that could harm it still lies over an alive,
\* shielded human or bot
ShieldedUnderFire ==
    /\ ticks > 0
    /\ \E i \in 1..Len(room.bullets) : \E n \in 1..NumCombatants(room) :
           /\ Ent(room, Combatant(room, n)).alive
           /\ Ent(room, Combatant(room, n)).shield > 0
           /\ Ent(room, Combatant(room, n)).id # room.bullets[i].ownerId
           /\ (room.isDM \/ room.bullets[i].team = "enemy")
           /\ Over(i, n)

\* C6: no tick resolves a projectile against the combatant that fired it.
SelfHitExclusion == \A i \in Hits : events[i].victim # events[i].owner

\* after a tick a projectile still lies over its own owner, alive and unshielded
OwnBulletOverOwner ==
    /\ ticks > 0
    /\ \E i \in 1..Len(room.bullets) : \E n \in 1..NumCombatants(room) :
           /\ Ent(room, Combatant(room, n)).alive
           /\ ~(Ent(room, Combatant(room, n)).shield > 0)
           /\ Ent(room, Combatant(room, n)).id = room.bullets[i].ownerId
           /\ Over(i, n)

\* C7: a bullet that has left the live set never comes back and its
\* identifier is not given again; a tick resolves a bullet at most once, only
\* a bullet that was live or that it fired, and removes it from the live set.
SingleResolution ==
    [][/\ \A id \in 0..(room.nextBulletId - 1) :
              id \notin BulletIds(room) => id \notin BulletIds(room')
       /\ Cardinality(BulletIds(room')) = Len(room'.bullets)
       /\ ticks' # ticks =>
              \A i \in 1..Len(room'.ev) : room'.ev[i].t = "resolve" =>
                  /\ room'.ev[i].bullet \notin BulletIds(room')
                  /\ \/ room'.ev[i].bullet \in BulletIds(room)
                     \/ room'.ev[i].bullet >= room.nextBulletId
                  /\ \A j \in 1..Len(room'.ev) :
                         (j # i /\ room'.ev[j].t = "resolve")
                             => room'.ev[j].bullet # room'.ev[i].bullet]_vars

\* one tick resolved a bullet on a tank and another on a tile, and bullets fly on
ResolvedBothWays ==
    /\ \E i \in Resolutions : events[i].cause = "hit"
    /\ \E i \in Resolutions : events[i].cause = "tile"
    /\ Len(room.bullets) > 0

\* ------------------------------------------------------------------ a duel
DuelJoins == 5
DuelTicks == 50

\* A deathmatch room: five sockets join, which puts the third on spawn point
\* (5, 1) and the fifth on spawn point (1, 1), face to face along row 1; the
\* others may leave. The third fires to the left and the fifth to the right,
\* in ticks of 2000 ms.
NextDuel ==
    \/ (nextHandle = 0 /\ AddPlayer({""}, DuelJoins))
    \/ (nextHandle = 0 /\ nextSocket >= DuelJoins /\ RemovePlayer({1, 2, 4}))
    \/ (nextHandle = 0 /\ HandleInput({<<3, LeftFire>>, <<5, RightFire>>}))
    \/ Start({0}, 1)
    \/ Tick({2000}, {0}, DuelTicks)

SpecDuel == InitMap(1) /\ [][NextDuel]_vars

\* combatant n of the room has its score taken from 19 to the limit by the step
ReachesLimit(n) ==
    /\ Ent(room, Combatant(room, n)).score = DM_FRAG_LIMIT - 1
    /\ Ent(room', Combatant(room', n)).score >= DM_FRAG_LIMIT

\* the combatants of room r at the frag limit, by their place in the scan
AtLimit(r) == {n \in 1..NumCombatants(r) : Ent(r, Combatant(r, n)).score >= r.fragLimit}

\* C8 as stated: every participant whose score a tick takes from 19 to 20 is
\* the recorded winner of the match at the end of that tick.
FragRace ==
    [][(ticks' # ticks /\ room.isDM) =>
          \A n \in 1..NumCombatants(room) : ReachesLimit(n) =>
              /\ room'.gameOver
              /\ room'.winnerId = Ent(room', Combatant(room', n)).id
              /\ room'.winner = Ent(room', Combatant(room', n)).name]_vars

\* C8: when a tick takes a participant's score from 19 to 20 the match is
\* terminal at the end of that tick, and the recorded winner is the first
\* participant in the scan (humans in join order, then bots) at the limit.
FragRaceFirstInScan ==
    [][(/\ ticks' # ticks
        /\ room.isDM
        /\ \E n \in 1..NumCombatants(room) : ReachesLimit(n)) =>
          /\ room'.gameOver
          /\ room'.winnerId = Ent(room', Combatant(room', First(AtLimit(room')))).id
          /\ room'.winner = Ent(room', Combatant(room', First(AtLimit(room')))).name]_vars

\* the match has ended with two participants at the limit at once
BothAtLimit ==
    /\ room.gameOver
    /\ Cardinality(AtLimit(room)) = 2
    /\ \E i, j \in Hits : events[i].owner # events[j].owner

\* ------------------------------------------------------------ coop defeat
\* C11: in a coop room that is not over and that a human has ever joined, a
\* tick after which every human has no life left ends with the match over
\* and won by 'enemies'.
CoopDefeat ==
    [][(/\ ticks' # ticks
        /\ room.mode = "coop"
        /\ ~room.gameOver
        /\ nextSocket > 0
        /\ \A i \in 1..Len(room'.players) : ~(room'.players[i].lives > 0)) =>
          room'.gameOver /\ room'.winner = "enemies"]_vars

\* -------------------------------------------------- deathmatch respawns
\* the respawns of the last tick, as indices into its log
Respawned == {i \in 1..Len(events) : events[i].t = "respawn"}

\* C12: every respawn of a tick puts the entity on a spawn point whose least
\* distance to the other live humans and bots, measured when the entity is
\* placed, is the greatest among the deathmatch spawn points.
RespawnPlacement ==
    \A i \in Respawned : \A k \in 1..Len(DM_SPAWN_POINTS) :
        events[i].dists[events[i].point] >= events[i].dists[k]

\* an entity has respawned among live others, on a point that is neither the
\* first of the list nor as near to them as every other point
RespawnedFarthest ==
    \E i \in Respawned :
        /\ events[i].point # 1
        /\ \E k \in 1..Len(DM_SPAWN_POINTS) :
               events[i].dists[k] < events[i].dists[events[i].point]

\* --------------------------------------------------- deathmatch kills
\* the hits logged in room r by its last tick, those of owner id, those on id
HitsIn(r) == {i \in 1..Len(r.ev) : r.ev[i].t = "hit"}
HitsBy(r, id) == {i \in HitsIn(r) : r.ev[i].owner = id}
HitsOn(r, id) == {i \in HitsIn(r) : r.ev[i].victim = id}
\* the entries of the respawn queue of r for id that still hold the full delay
FreshEntries(r, id) ==
    {q \in 1..Len(r.respawnQueue) :
        /\ r.respawnQueue[q].entity = id
        /\ r.respawnQueue[q].timer = DM_RESPAWN_DELAY_MS}

\* C13: in a deathmatch tick every hit adds 1 to the deaths of its victim,
\* leaves it not alive with one respawn entry at the full delay, and adds 1
\* to the score of the owner of the bullet; scores and death counts change in
\* no other way, so a combatant that no hit names keeps both.
KillEffects ==
    [][(ticks' # ticks /\ room.isDM) =>
          \A n \in 1..NumCombatants(room) :
              /\ Ent(room', Combatant(room, n)).score =
                     Ent(room, Combatant(room, n)).score
                         + Cardinality(HitsBy(room', Ent(room, Combatant(room, n)).id))
              /\ Ent(room', Combatant(room, n)).deaths =
                     Ent(room, Combatant(room, n)).deaths
                         + Cardinality(HitsOn(room', Ent(room, Combatant(room, n)).id))
              /\ Cardinality(HitsOn(room', Ent(room, Combatant(room, n)).id)) <= 1
              /\ Cardinality(FreshEntries(room', Ent(room, Combatant(room, n)).id))
                     = Cardinality(HitsOn(room', Ent(room, Combatant(room, n)).id))
              /\ HitsOn(room', Ent(room, Combatant(room, n)).id) # {}
                     => ~Ent(room', Combatant(room, n)).alive]_vars

\* a tick of a deathmatch room with three combatants or more has ended with a
\* hit by a combatant of the room
KilledAmongOthers ==
    /\ room.isDM
    /\ NumCombatants(room) >= 3
    /\ \E i \in Hits : \E n \in 1..NumCombatants(room) :
           /\ Ent(room, Combatant(room, n)).id = events[i].owner
           /\ Ent(room, Combatant(room, n)).score > 0

\* the entries taken out of the queue of r by its last tick
Dequeued(r) == {i \in 1..Len(r.ev) : r.ev[i].t = "dequeue"}
\* the combatants of r with identifier id, as places in allTargets
Places(r, id) == {n \in 1..NumCombatants(r) : Ent(r, Combatant(r, n)).id = id}

\* C14: after a tick of a deathmatch room that was not over, every entry left
\* in the queue has waited less than the respawn delay and its entity is not
\* alive; every entry the tick took out had waited less than the delay before
\* the tick and has waited the delay or more with it, and its entity is alive
\* and shielded; and every combatant that is not alive waits in the queue.
RespawnTiming ==
    [][(ticks' # ticks /\ room.isDM /\ ~room.gameOver) =>
          /\ \A q \in 1..Len(room'.respawnQueue) :
                 /\ room'.respawnQueue[q].since < DM_RESPAWN_DELAY_MS
                 /\ \A n \in Places(room', room'.respawnQueue[q].entity) :
                        ~Ent(room', Combatant(room', n)).alive
          /\ \A i \in Dequeued(room') :
                 /\ room'.ev[i].since >= DM_RESPAWN_DELAY_MS
                 /\ \E q \in 1..Len(room.respawnQueue) :
                        /\ room.respawnQueue[q].entity = room'.ev[i].entity
                        /\ room.respawnQueue[q].since < DM_RESPAWN_DELAY_MS
                 /\ \A n \in Places(room', room'.ev[i].entity) :
                        /\ Ent(room', Combatant(room', n)).alive
                        /\ Ent(room', Combatant(room', n)).shield > 0
          /\ \A n \in 1..NumCombatants(room') :
                 ~Ent(room', Combatant(room', n)).alive =>
                     \E q \in 1..Len(room'.respawnQueue) :
                         room'.respawnQueue[q].entity = Ent(room', Combatant(room', n)).id]_vars

\* ------------------------------------------------------- coop respawn slot
\* player p stands on the spawn point of the slot it joined with
OnJoinSlot(p) ==
    /\ p.x = Px(SPAWN_POINTS[(p.slot % Len(SPAWN_POINTS)) + 1].x * TILE_SIZE + 1)
    /\ p.y = Px(SPAWN_POINTS[(p.slot % Len(SPAWN_POINTS)) + 1].y * TILE_SIZE + 1)

\* the players of the room that the last tick hit and that have lives left
HitWithLives ==
    {k \in 1..Len(room.players) :
        /\ room.players[k].lives > 0
        /\ \E i \in Hits : /\ events[i].vkind = "players"
                            /\ events[i].victim = room.players[k].id}

\* C15: in a coop room a human that a tick has hit and that has lives left
\* stands on the spawn point of the slot it was given when it joined.
RespawnSlotStable ==
    room.mode = "coop" => \A k \in HitWithLives : OnJoinSlot(room.players[k])

\* ------------------------------------------------------------------ terrain
TerrainJoins == 2
TerrainTicks == 6

\* Up to two players join a room of any mode and choose in the lobby to drive
\* and fire to the right; the match is started once and runs in ticks of
\* 500 ms, so that each of them fires a bullet in every tick.
NextTerrain ==
    \/ (nextHandle = 0 /\ AddPlayer({""}, TerrainJoins))
    \/ (nextHandle = 0 /\ HandleInput({<<1, RightFire>>, <<2, RightFire>>}))
    \/ Start({0, 999}, 1)
    \/ Tick({500}, {0, 999}, TerrainTicks)

SpecTerrain == Init /\ [][NextTerrain]_vars

\* the tile checks of the last tick of r, as indices into its log
Enters(r) == {i \in 1..Len(r.ev) : r.ev[i].t = "enter"}
\* the cells whose material differs between the grids m and n
Changed(m, n) == {c \in 1..Len(m) : m[c] # n[c]}
\* the tick that ended in r has resolved bullet id by the tile it entered
StoppedByTile(r, id) ==
    \E j \in 1..Len(r.ev) :
        r.ev[j].t = "resolve" /\ r.ev[j].bullet = id /\ r.ev[j].cause = "tile"

\* C16: across every step the grid keeps its MAP_COLS * MAP_ROWS cells; a
\* step that changes a cell is a tick, the cell held brick (1) or the base
\* (5) before and holds nothing (0) after, and a bullet of that tick entered
\* the cell, found that material there and was resolved by it; cells of
\* steel, water, foliage and empty cells keep their material.
TerrainRestricted ==
    [][/\ Len(room'.mapData) = MAP_COLS * MAP_ROWS
       /\ room'.mapData # room.mapData =>
             /\ ticks' # ticks
             /\ \A c \in Changed(room.mapData, room'.mapData) :
                    /\ room.mapData[c] \in {1, 5}
                    /\ room'.mapData[c] = 0
                    /\ \E i \in Enters(room') :
                           /\ room'.ev[i].cell = c - 1
                           /\ room'.ev[i].tile = room.mapData[c]
                           /\ StoppedByTile(room', room'.ev[i].bullet)]_vars

\* a bullet has cleared a brick cell of the map the room was built from
BrickCleared ==
    \E c \in 1..Len(room.mapData) :
        /\ MAPS[room.mapIndex + 1].tiles[c] = 1
        /\ room.mapData[c] = 0
        /\ \E i \in Enters(room) : events[i].cell = c - 1 /\ events[i].tile = 1

\* C17: in a tick every bullet that enters a steel cell is resolved by it and
\* the cell is steel before and afterwards; every bullet that enters a brick
\* cell is resolved by it, the cell is empty afterwards and every other bullet
\* of the tick in that cell comes later and finds it empty; and every bullet that
\* enters a cell that was brick on the map and is empty now is not resolved
\* by a tile, and the cell stays empty.
TerrainIdempotence ==
    [][ticks' # ticks =>
          \A i \in Enters(room') :
              /\ room'.ev[i].tile = 2 =>
                     /\ StoppedByTile(room', room'.ev[i].bullet)
                     /\ room'.ev[i].bullet \notin BulletIds(room')
                     /\ room'.mapData[room'.ev[i].cell + 1] = 2
                     /\ room.mapData[room'.ev[i].cell + 1] = 2
              /\ room'.ev[i].tile = 1 =>
                     /\ StoppedByTile(room', room'.ev[i].bullet)
                     /\ room'.ev[i].bullet \notin BulletIds(room')
                     /\ room'.mapData[room'.ev[i].cell + 1] = 0
                     /\ \A j \in Enters(room') \ {i} :
                            room'.ev[j].cell = room'.ev[i].cell
                                => j > i /\ room'.ev[j].tile = 0
              /\ (/\ room'.ev[i].tile = 0
                  /\ MAPS[room.mapIndex + 1].tiles[room'.ev[i].cell + 1] = 1) =>
                     /\ ~StoppedByTile(room', room'.ev[i].bullet)
                     /\ room'.mapData[room'.ev[i].cell + 1] = 0]_vars

\* a bullet has passed through a cleared brick cell and a bullet has been
\* stopped by steel in the same match
PassedClearedCell ==
    /\ \E i \in Enters(room) :
           /\ events[i].tile = 0
           /\ MAPS[room.mapIndex + 1].tiles[events[i].cell + 1] = 1
    /\ \E j \in Enters(room) : events[j].tile = 2 /\ StoppedByTile(room, events[j].bullet)

\* --------------------------------------------------------------- countdowns
\* the elapsed time of the tick that ended in r
Elapsed(r) == r.ev[1].dt
\* the tick that ended in r has hit or respawned the combatant id
Renewed(r, id) ==
    \E i \in 1..Len(r.ev) :
        \/ r.ev[i].t = "hit" /\ r.ev[i].victim = id
        \/ r.ev[i].t = "respawn" /\ r.ev[i].entity = id
\* the cooldown a shot leaves to combatant n of allTargets
CooldownOf(r, n) ==
    IF Combatant(r, n)[1] = "bots" THEN BOT_COOLDOWN ELSE PLAYER_COOLDOWN

\* C18: a tick of a room that is not over takes its elapsed time dt once off
\* the positive shield of every human and bot that it neither hits nor
\* respawns, and once off every positive fire cooldown, which a shot of the
\* same tick may set anew once it has run out.
TickCountdowns ==
    [][(ticks' # ticks /\ ~room.gameOver) =>
          \A n \in 1..NumCombatants(room) :
              /\ (/\ Ent(room, Combatant(room, n)).shield > 0
                  /\ ~Renewed(room', Ent(room, Combatant(room, n)).id)) =>
                     Ent(room', Combatant(room, n)).shield
                         = Ent(room, Combatant(room, n)).shield - Elapsed(room')
              /\ Ent(room, Combatant(room, n)).bulletCooldown > 0 =>
                     \/ Ent(room', Combatant(room, n)).bulletCooldown
                            = Ent(room, Combatant(room, n)).bulletCooldown - Elapsed(room')
                     \/ /\ Ent(room, Combatant(room, n)).bulletCooldown <= Elapsed(room')
                        /\ Ent(room', Combatant(room, n)).bulletCooldown
                               = CooldownOf(room, n)]_vars

\* -------------------------------------------------------------------- input
InputJoins == 2
InputTicks == 3
InputBurst == 2

\* Up to two players join a coop or a deathmatch room before the match is
\* started; the first delivers "right and fire" or "down", the second
\* "left and fire" or nothing held, a socket that never joined delivers
\* "fire"; the second and the stranger disconnect; at most two of these
\* arrive between two ticks of 500 ms.
InitInput == InitMap(0) \/ InitMap(1)
NextInput ==
    \/ (nextHandle = 0 /\ AddPlayer({""}, InputJoins))
    \/ Input({<<1, RightFire>>, <<1, Down>>, <<2, LeftFire>>, <<2, Idle>>, <<3, Fire>>},
             InputBurst)
    \/ Disconnect({2, 3}, InputBurst)
    \/ Start({0}, 1)
    \/ Tick({500}, {0}, InputTicks)

SpecInput == InitInput /\ [][NextInput]_vars

\* the step has delivered or taken away something: the log has grown by one
\* arrival, which Arrived names
Arriving == Len(room'.ev) = Len(room.ev) + 1 /\ Len(room'.ev) \in Arrivals(room')
Arrived == room'.ev[Len(room'.ev)]
\* one of the direction keys of inp is held
AnyDir(inp) == inp.up \/ inp.down \/ inp.left \/ inp.right
\* the facing the if / else if chain of _updatePlayers takes from inp
DirOf(inp) ==
    IF inp.up THEN DIR_UP ELSE IF inp.down THEN DIR_DOWN
    ELSE IF inp.left THEN DIR_LEFT ELSE DIR_RIGHT
\* the deliveries to player id that the log of r holds
DeliveredTo(r, id) ==
    {i \in 1..Len(r.ev) : r.ev[i].t = "input" /\ r.ev[i].id = id /\ r.ev[i].known}
\* the last element of the non-empty set of indices S
Latest(S) == CHOOSE i \in S : \A j \in S : j <= i

\* C19: a delivery for a player of the room leaves the room as it was but for
\* that player's inputs, which are the delivered ones as a whole; a player's
\* inputs change in no other step, and a tick leaves them as it found them;
\* the inputs a tick finds are those of the last delivery to the player since
\* the tick before, if there was one, and the tick of a match that is not over
\* applies them: a player alive when _updatePlayers runs is moving if and only
\* if a direction key is held, faces the held direction unless the tick hits
\* it, and gets no new bullet unless fire is held.
InputLastWriteWins ==
    [][/\ (Arriving /\ Arrived.t = "input" /\ Arrived.known) =>
              /\ PlayerIndex(room, Arrived.id) >= 0
              /\ room' = Log([room EXCEPT
                                 !.players[PlayerIndex(room, Arrived.id) + 1].inputs
                                     = Arrived.inputs], Arrived)
       /\ \A i \in 1..Len(room.players) : \A k \in 1..Len(room'.players) :
              (/\ room'.players[k].id = room.players[i].id
               /\ room'.players[k].inputs # room.players[i].inputs) =>
                  /\ Arriving /\ Arrived.t = "input"
                  /\ Arrived.id = room.players[i].id
                  /\ room'.players[k].inputs = Arrived.inputs
       /\ ticks' # ticks =>
              /\ Len(room'.players) = Len(room.players)
              /\ \A i \in 1..Len(room.players) :
                     /\ room'.players[i].inputs = room.players[i].inputs
                     /\ DeliveredTo(room, room.players[i].id) # {} =>
                            room.players[i].inputs
                                = room.ev[Latest(DeliveredTo(room, room.players[i].id))].inputs
                     /\ (/\ ~room.gameOver
                         /\ \/ room.players[i].alive
                            \/ \E e \in 1..Len(room'.ev) :
                                   /\ room'.ev[e].t = "respawn"
                                   /\ room'.ev[e].entity = room.players[i].id) =>
                            /\ room'.players[i].moving = AnyDir(room.players[i].inputs)
                            /\ (/\ AnyDir(room.players[i].inputs)
                                /\ ~Renewed(room', room.players[i].id)) =>
                                   room'.players[i].dir = DirOf(room.players[i].inputs)
                            /\ ~room.players[i].inputs.shoot =>
                                   \A b \in 1..Len(room'.bullets) :
                                       room'.bullets[b].ownerId = room.players[i].id
                                           => room'.bullets[b].id < room.nextBulletId]_vars

\* a tick has applied the later of two different deliveries to a player: it
\* moves downwards as delivered last, and a bullet it fired to the right
\* under the delivery before is still in flight
SecondDeliveryApplied ==
    /\ ticks >= 2
    /\ Arrivals(room) = {}
    /\ \E i \in 1..Len(room.players) :
           /\ room.players[i].inputs = Down
           /\ room.players[i].dir = DIR_DOWN
           /\ room.players[i].moving
           /\ \E b \in 1..Len(room.bullets) :
                  /\ room.bullets[b].ownerId = room.players[i].id
                  /\ room.bullets[b].dir = DIR_RIGHT

\* C20: a delivery from, or the departure of, a socket that is not a player
\* of the room leaves every field of the room as it was, the timers and
\* counters of the surroundings included.
AbsentNoOp ==
    [][(Arriving /\ ~Arrived.known) =>
          /\ PlayerIndex(room, Arrived.id) < 0
          /\ Fields(room') = Fields(room)
          /\ room' = Log(room, Arrived)
          /\ UNCHANGED <<timers, nextHandle, nextSocket, snapshot, ticks, halted, otherRoom, mapTiles, entry>>]_vars

\* the last arrival came from a player that had left, with a match running
\* and another player in the room
AbsentArrived ==
    /\ Len(room.ev) > 0
    /\ events[Len(room.ev)].t \in {"input", "leave"}
    /\ ~events[Len(room.ev)].known
    /\ events[Len(room.ev)].id = SocketIds[2]
    /\ nextSocket >= 2
    /\ Len(room.players) > 0
    /\ timers # {}

\* -------------------------------------------------------------------- lives
\* C21: in a coop room every human has between 0 and 3 lives, and a human
\* with no life left is not alive.
LivesInRange ==
    room.mode = "coop" =>
        \A i \in 1..Len(room.players) :
            /\ room.players[i].lives \in 0..3
            /\ room.players[i].lives = 0 => ~room.players[i].alive

\* a human of a coop room has lost its last life and the match went on with
\* an enemy bullet in flight
LastLifeLost ==
    /\ room.mode = "coop"
    /\ \E i \in 1..Len(room.players) : room.players[i].lives = 0
    /\ \E b \in 1..Len(room.bullets) : room.bullets[b].team = "enemy"

\* ---------------------------------------------------------------- isolation
RoomsJoins  == 2
RoomsStarts == 3
RoomsTicks  == 4

\* Up to two players join a coop room and drive and fire to the right, the
\* first into the base, the second into the bricks; a second room of the same
\* map is made at any time, and a match that is over is restarted.
NextRooms ==
    \/ (nextHandle = 0 /\ AddPlayer({""}, RoomsJoins))
    \/ HandleInput({<<1, RightFire>>, <<2, RightFire>>})
    \/ Start({0}, 1)
    \/ Tick({500}, {0}, RoomsTicks)
    \/ RestartGame({""}, {0}, RoomsStarts)
    \/ CreateRoom

SpecRooms == InitMap(0) /\ [][NextRooms]_vars

\* the tiles of the map of the room as maps.js gives them
Pristine == MAPS[room.mapIndex + 1].tiles

\* C22: the array of the map holds the tiles of the map in every state, and
\* so does the grid of the second room once it is made; no step changes the
\* second room but the one that makes it; and the step that restarts a match
\* that is over gives the room the tiles of the map.
MatchIsolation ==
    [][/\ mapTiles' = Pristine
       /\ otherRoom' # NoRoom => otherRoom'.mapData = Pristine
       /\ otherRoom # NoRoom => otherRoom' = otherRoom
       /\ (room.gameOver /\ ~room'.gameOver) =>
              /\ room'.mapData = Pristine
              /\ room'.mapIndex = room.mapIndex]_vars

\* the room has been restarted after its base fell and has lost a brick
\* since, with the second room made before the restart or after
RestartedAndHitAgain ==
    /\ nextHandle >= 2
    /\ otherRoom # NoRoom
    /\ room.mapData # Pristine
    /\ ~room.baseDestroyed

\* ------------------------------------------------------ snapshot: privacy
\* a countdown with the sign of n and nothing else of it
SignOf(n) == IF n > 0 THEN 1 ELSE 0
\* player p, bot b and enemy e with their private fields wiped: the buffered
\* input, the countdowns but for the sign of the shield, the scratch of the AI
VeiledPlayer(p) ==
    [p EXCEPT !.inputs = NoInputs, !.bulletCooldown = 0, !.shield = SignOf(@),
              !.respawnTimer = 0]
VeiledBot(b) ==
    [b EXCEPT !.bulletCooldown = 0, !.shield = SignOf(@), !.moveTimer = 0,
              !.shootTimer = 0, !.targetId = "null", !.respawnTimer = 0]
VeiledEnemy(e) == [e EXCEPT !.moveTimer = 0, !.shootTimer = 0]
RECURSIVE VeiledFrom(_, _, _)
VeiledFrom(seq, kind, i) ==
    IF i > Len(seq) THEN <<>>
    ELSE <<IF kind = "players" THEN VeiledPlayer(seq[i])
           ELSE IF kind = "bots" THEN VeiledBot(seq[i]) ELSE VeiledEnemy(seq[i])>>
         \o VeiledFrom(seq, kind, i + 1)
\* room r with the private fields of all its tanks wiped
Veiled(r) ==
    [r EXCEPT !.players = VeiledFrom(@, "players", 1),
              !.bots    = VeiledFrom(@, "bots", 1),
              !.enemies = VeiledFrom(@, "enemies", 1)]

TankKeys ==
    {"id", "name", "x", "y", "dir", "alive", "lives", "score", "deaths", "color",
     "shield", "moving", "isBot"}
EnemyKeys == {"id", "x", "y", "dir", "alive", "moving"}

PeekJoins == 2
PeekTicks == 2

\* A room of any mode is filled, its players drive and fire to the right, it
\* is started once and runs in ticks of 500 ms, which leave shields, fire
\* cooldowns and AI timers running; getState() is called at any moment.
NextPeek ==
    \/ AddPlayer({""}, PeekJoins)
    \/ HandleInput((1..PeekJoins) \X {RightFire})
    \/ Start({0, 999}, 1)
    \/ Tick({500}, {0, 999}, PeekTicks)
    \/ GetState

SpecPeek == Init /\ [][NextPeek]_vars

\* C23: the snapshot a getState() call returns is the one it would return
\* for the room with all private fields wiped (buffered input, fire cooldown,
\* AI timers and target, the shield countdown but for its sign); its entries
\* for players, bots and enemies have the public keys only, and shield is a
\* boolean.
SnapshotVeilsPrivate ==
    [][snapshot' # snapshot =>
          /\ snapshot' = getState(Veiled(room))
          /\ \A i \in 1..Len(snapshot'.players) :
                 /\ DOMAIN snapshot'.players[i] = TankKeys
                 /\ snapshot'.players[i].shield \in BOOLEAN
          /\ \A i \in 1..Len(snapshot'.bots) :
                 /\ DOMAIN snapshot'.bots[i] = TankKeys
                 /\ snapshot'.bots[i].shield \in BOOLEAN
          /\ \A i \in 1..Len(snapshot'.enemies) :
                 DOMAIN snapshot'.enemies[i] = EnemyKeys]_vars

\* a snapshot was taken of the room as it is, in which a player holds keys
\* down, a shield and a fire cooldown are running and an AI timer is set
PrivateFieldsSet ==
    /\ snapshot = getState(room)
    /\ \E i \in 1..Len(room.players) : room.players[i].inputs # NoInputs
    /\ \E i \in 1..Len(room.players) : room.players[i].shield > 1
    /\ \E i \in 1..Len(room.players) : room.players[i].bulletCooldown > 0
    /\ \/ \E j \in 1..Len(room.bots) :
              room.bots[j].moveTimer > 0 \/ room.bots[j].shootTimer > 0
       \/ \E j \in 1..Len(room.enemies) :
              room.enemies[j].moveTimer > 0 /\ room.enemies[j].shootTimer > 0

\* ----------------------------------------------------------------- capacity
JoinSockets == 10
JoinTicks   == 1

\* Ten sockets ask to join a room of any mode, one after the other; the
\* third, fifth and ninth may disconnect; the match is started once and
\* ticks once.
NextJoin ==
    \/ JoinRoom({""}, JoinSockets)
    \/ RemovePlayer({3, 5, 9})
    \/ Start({0}, 1)
    \/ Tick({3000}, {0}, JoinTicks)

SpecJoin == Init /\ [][NextJoin]_vars

\* the step is a joinRoom of a new socket, and what was emitted to it
Joining == nextSocket' = nextSocket + 1
Emitted == room'.ev[Len(room'.ev)]

\* C24: the match of a room never holds more than 4 players; a joinRoom that
\* finds 4 players in it emits the error 'Room is full' and leaves the list
\* of players as it was, and one that finds fewer in a match that is not over
\* adds the socket.
RoomCapacity ==
    [][/\ Len(room'.players) <= 4
       /\ (Joining /\ Len(room.players) >= 4) =>
              /\ Emitted.t = "error" /\ Emitted.msg = "Room is full"
              /\ room'.players = room.players
       /\ (Joining /\ Len(room.players) < 4 /\ ~room.gameOver) =>
              /\ Emitted.t = "joinedRoom"
              /\ Len(room'.players) = Len(room.players) + 1]_vars

\* -------------------------------------------------------------- tick phases
\* the phase of tick() that writes entry e of the log: 1 the timers (the
\* entry that opens the log), 2 the deathmatch respawns, 3 the humans, 4 the
\* bots or classic enemies, 5 the bullets
PhaseOf(e) ==
    IF e.t = "tick" THEN 1
    ELSE IF e.t \in {"dequeue", "respawn"} THEN 2
    ELSE IF e.t = "fire" THEN (IF e.team = "player" THEN 3 ELSE 4)
    ELSE IF e.t = "move" THEN (IF e.kind = "players" THEN 3 ELSE 4)
    ELSE 5
\* the shots of the tick that ended in r
Fired(r) == {i \in 1..Len(r.ev) : r.ev[i].t = "fire"}

\* C25: the log of a tick of a room that is not over runs through the phases
\* in their order: timers, respawns, humans, AI, bullets; a human that is
\* alive and holds fire shoots in the tick in which its cooldown runs out;
\* every bullet fired in the tick is moved and checked against the grid, or
\* leaves it, later in the same tick; and the tick ends as the win evaluation
\* leaves it, so that evaluating the room once more changes nothing.
TickPhaseOrder ==
    [][(ticks' # ticks /\ ~room.gameOver) =>
          /\ room'.ev[1].t = "tick"
          /\ \A i, j \in 1..Len(room'.ev) :
                 i < j => PhaseOf(room'.ev[i]) <= PhaseOf(room'.ev[j])
          /\ \A k \in 1..Len(room.players) :
                 (/\ room.players[k].alive /\ room.players[k].inputs.shoot
                  /\ room.players[k].bulletCooldown <= Elapsed(room')) =>
                     \E i \in Fired(room') : room'.ev[i].owner = room.players[k].id
          /\ \A i \in Fired(room') :
                 \E j \in (i + 1)..Len(room'.ev) :
                     /\ room'.ev[j].t \in {"enter", "resolve"}
                     /\ room'.ev[j].bullet = room'.ev[i].bullet
          /\ Fields(_checkGameOver(room')) = Fields(room')]_vars

\* a tick has run through all five phases with something to do in each: it
\* took an entity out of the respawn queue, a human fired, a bot fired, and a
\* bullet hit
AllPhasesActed ==
    /\ Dequeued(room) # {}
    /\ \E i \in Fired(room) : events[i].team = "player"
    /\ \E i \in Fired(room) : events[i].team # "player"
    /\ Hits # {}

\* ---------------------------------------------------------------- coop hits
\* the identifiers of the tanks in seq
IdsOf(seq) == {seq[i].id : i \in 1..Len(seq)}
\* the tick that ended in r has hit tank id with a bullet of team
HitBy(r, id, team) ==
    \E i \in 1..Len(r.ev) :
        r.ev[i].t = "hit" /\ r.ev[i].victim = id /\ r.ev[i].team = team

\* C26: in a coop room every hit of an enemy's bullet is on a human that was
\* alive and had no shield, and every hit of a human's bullet on a classic
\* enemy that was alive; a tick takes a life only from a human that an
\* enemy's bullet hit and removes only an enemy that a human's bullet hit.
CoopHitRule ==
    [][(ticks' # ticks /\ room.mode = "coop") =>
          /\ \A i \in 1..Len(room'.ev) : room'.ev[i].t = "hit" =>
                 /\ room'.ev[i].team \in {"enemy", "player"}
                 /\ room'.ev[i].team = "enemy" =>
                        /\ room'.ev[i].vkind = "players"
                        /\ room'.ev[i].alive /\ room'.ev[i].shield <= 0
                 /\ room'.ev[i].team = "player" =>
                        /\ room'.ev[i].vkind = "enemies"
                        /\ room'.ev[i].alive
          /\ \A k \in 1..Len(room.players) :
                 (\/ room'.players[k].lives # room.players[k].lives
                  \/ room'.players[k].alive # room.players[k].alive) =>
                     HitBy(room', room.players[k].id, "enemy")
          /\ \A id \in IdsOf(room.enemies) \ IdsOf(room'.enemies) :
                 HitBy(room', id, "player")]_vars

\* a coop room of three humans in which the first holds down and fire
CoopJoins == 3
CoopTicks == 8
NextCoop ==
    \/ (nextHandle = 0 /\ AddPlayer({""}, CoopJoins))
    \/ (nextHandle = 0 /\ HandleInput({<<1, DownFire>>}))
    \/ Start({0, 999}, 1)
    \/ Tick({3000}, {0, 999}, CoopTicks)
SpecCoop == InitMap(0) /\ [][NextCoop]_vars

\* a tick of a coop room has hit a human with an enemy's bullet, and after it
\* the bullet of one human lies over another human that is alive and has no
\* shield
FriendlyBulletOverFriend ==
    /\ room.mode = "coop"
    /\ \E i \in Hits : events[i].team = "enemy"
    /\ \E b \in 1..Len(room.bullets) : \E k \in 1..Len(room.players) :
           /\ room.bullets[b].team = "player"
           /\ room.bullets[b].ownerId # room.players[k].id
           /\ room.players[k].alive /\ room.players[k].shield <= 0
           /\ _bulletHits(room.bullets[b], room.players[k])

KillsBy(r, id) ==
    {i \in 1..Len(r.ev) : /\ r.ev[i].t = "hit" /\ r.ev[i].vkind = "enemies"
                          /\ r.ev[i].owner = id}
\* the hits of the tick that ended in r on enemies
Kills(r) == {i \in 1..Len(r.ev) : r.ev[i].t = "hit" /\ r.ev[i].vkind = "enemies"}

\* C28: in a tick of a coop room every enemy that a human's bullet hits was
\* alive and is gone from the roster after the tick, the on-field counter has
\* gone up by the enemies the tick brought in and down by exactly one for
\* every such hit, and the score of every human has grown by exactly 100 for
\* every hit of its own bullets and by nothing else.
CoopEnemyKill ==
    [][(ticks' # ticks /\ room.mode = "coop") =>
          /\ \A i \in Kills(room') :
                 /\ room'.ev[i].team = "player"
                 /\ room'.ev[i].alive
                 /\ room'.ev[i].victim \notin IdsOf(room'.enemies)
          /\ room'.enemiesOnField =
                 room.enemiesOnField
                   + (room.enemiesRemaining - room'.enemiesRemaining)
                   - Cardinality(Kills(room'))
          /\ room'.enemiesOnField = Len(room'.enemies)
          /\ \A k \in 1..Len(room.players) :
                 room'.players[k].score =
                     room.players[k].score
                       + KILL_POINTS * Cardinality(KillsBy(room', room.players[k].id))]_vars

\* a tick of a coop room of two humans in which the bullet of the second has
\* hit an enemy, after which the second has more points than the first
SecondPlayerScored ==
    /\ room.mode = "coop" /\ Len(room.players) = 2
    /\ \E i \in Hits : /\ events[i].vkind = "enemies"
                       /\ events[i].owner = room.players[2].id
    /\ room.players[2].score > room.players[1].score

\* ---------------------------------------------------------- deathmatch hits
\* the hits of the last tick of a bullet of a human (owner "players") or of a
\* bot (owner "bots") on a human or a bot (victim)
DMHits(owner, victim) ==
    {i \in Hits : /\ events[i].vkind = victim
                  /\ events[i].owner \in IdsOf(room[owner])}

\* C29: in a deathmatch room every hit of a tick is on a human or bot that
\* was alive, had no shield and is not the owner of the bullet; a tick makes
\* a human or bot not alive or counts a death for it only with a hit on it,
\* and every human or bot that is hit is not alive after the tick.
DMHitRule ==
    [][(ticks' # ticks /\ isDMMode(room.mode)) =>
          /\ \A i \in HitsIn(room') :
                 /\ room'.ev[i].vkind \in {"players", "bots"}
                 /\ room'.ev[i].alive
                 /\ room'.ev[i].shield <= 0
                 /\ room'.ev[i].victim # room'.ev[i].owner
          /\ \A kind \in {"players", "bots"} : \A k \in 1..Len(room[kind]) :
                 (\/ room[kind][k].alive /\ ~room'[kind][k].alive
                  \/ room'[kind][k].deaths # room[kind][k].deaths) =>
                     HitsOn(room', room[kind][k].id) # {}
          /\ \A kind \in {"players", "bots"} : \A k \in 1..Len(room[kind]) :
                 HitsOn(room', room[kind][k].id) # {} =>
                     ~room'[kind][k].alive]_vars

\* a tick of a deathmatch room in which a human's bullet has hit a bot, a
\* bot's bullet a human and a bot's bullet a bot
HumansAndBotsHit ==
    /\ isDMMode(room.mode)
    /\ DMHits("players", "bots") # {}
    /\ DMHits("bots", "players") # {}
    /\ DMHits("bots", "bots") # {}

\* ---------------------------------------------------------- respawn tie-break
\* the spawn point that the draw of a respawn picks as its first candidate
\* (pts[Math.floor(Math.random() * pts.length)]), for the respawn logged at i
Candidate(i) == ((events[i - 1].draw * Len(DM_SPAWN_POINTS)) \div 1000) + 1
\* the spawn points that are farthest from the others at the respawn logged at i
Farthest(i) ==
    {k \in 1..Len(DM_SPAWN_POINTS) :
        \A j \in 1..Len(DM_SPAWN_POINTS) : events[i].dists[k] >= events[i].dists[j]}

\* C30: when several spawn points are equally the farthest from the other
\* live combatants (also when there is none), the respawn takes the one among
\* them that its draw picks: a respawn whose drawn point is one of the
\* farthest puts the entity on the drawn point.
RespawnTieBreak ==
    \A i \in Respawned :
        (i > 1 /\ events[i - 1].t = "dequeue" /\ Candidate(i) \in Farthest(i))
            => events[i].point = Candidate(i)

\* ------------------------------------------------------------------ steering
SteerJoins == 2
SteerTicks == 13

Up           == In(TRUE, FALSE, FALSE, FALSE, FALSE)
UpFire       == In(TRUE, FALSE, FALSE, FALSE, TRUE)
AllFour      == In(TRUE, TRUE, TRUE, TRUE, FALSE)
DownSideways == In(FALSE, TRUE, TRUE, TRUE, FALSE)
Sideways     == In(FALSE, FALSE, TRUE, TRUE, TRUE)
Right        == In(FALSE, FALSE, FALSE, TRUE, FALSE)

\* A coop room of up to two humans that choose in the lobby which keys they
\* hold, several at once too; the match is started once and runs in ticks of
\* 16 ms or 200 ms. The first human stands below the spawn point of the first
\* enemy, between a steel wall to its left and the base to its right.
NextSteer ==
    \/ (nextHandle = 0 /\ AddPlayer({""}, SteerJoins))
    \/ (nextHandle = 0 /\ HandleInput(
            ({1} \X {Up, UpFire, AllFour, DownSideways, Sideways, Right, Fire})
              \cup ({2} \X {Up, DownSideways, Sideways, Right})))
    \/ Start({0}, 1)
    \/ Tick({16, 200}, {0}, SteerTicks)
SpecSteer == InitMap(0) /\ [][NextSteer]_vars

\* the direction the keys of inp ask for, -1 when none is held
Chosen(inp) ==
    IF inp.up THEN DIR_UP ELSE IF inp.down THEN DIR_DOWN
    ELSE IF inp.left THEN DIR_LEFT ELSE IF inp.right THEN DIR_RIGHT ELSE -1
\* the step ran a tick of the match
Ran(r) == Len(r.ev) > 0 /\ r.ev[1].t = "tick"

\* C31: in a tick a human that is alive and is not hit faces the first of up,
\* down, left, right that it holds, has moved by its speed in that direction
\* or not at all, and has its moving flag set; a human that holds no direction
\* keeps its position and its facing and has its moving flag cleared.
InputPriority ==
    [][(ticks' # ticks /\ Ran(room')) =>
          \A k \in 1..Len(room.players) :
              (room.players[k].alive /\ HitsOn(room', room.players[k].id) = {}) =>
                  IF Chosen(room.players[k].inputs) = -1
                  THEN /\ room'.players[k].x = room.players[k].x
                       /\ room'.players[k].y = room.players[k].y
                       /\ room'.players[k].dir = room.players[k].dir
                       /\ ~room'.players[k].moving
                  ELSE /\ room'.players[k].dir = Chosen(room.players[k].inputs)
                       /\ room'.players[k].moving
                       /\ \/ /\ room'.players[k].x = room.players[k].x
                             /\ room'.players[k].y = room.players[k].y
                          \/ /\ room'.players[k].x = room.players[k].x
                                   + dxOf(Chosen(room.players[k].inputs)) * room.players[k].speed
                             /\ room'.players[k].y = room.players[k].y
                                   + dyOf(Chosen(room.players[k].inputs)) * room.players[k].speed]_vars

\* both humans hold several directions and have moved: the first up, the
\* second down
SeveralKeysHeld ==
    /\ Len(room.players) = 2 /\ ticks > 0
    /\ room.players[1].inputs = AllFour /\ room.players[2].inputs = DownSideways
    /\ room.players[1].dir = DIR_UP /\ room.players[1].y < Px(SPAWN_POINTS[1].y * TILE_SIZE + 1)
    /\ room.players[2].dir = DIR_DOWN /\ room.players[2].y > Px(SPAWN_POINTS[2].y * TILE_SIZE + 1)

\* -------------------------------------------------------------- blocked moves
\* the moves of the tick that ended in r, as indices into its log
Moves(r) == {i \in 1..Len(r.ev) : r.ev[i].t = "move"}
\* the inclusive range of columns (rows) that a tank box with its corner at n
\* covers: from the cell of its first pixel to the cell of its last
Covered(n) == (n \div Px(TILE_SIZE))..((n + Px(TANK_SIZE - 1)) \div Px(TILE_SIZE))
\* the target box at (nx, ny) leaves the grid
LeavesGrid(nx, ny) ==
    \/ nx < 0 \/ ny < 0
    \/ nx + Px(TANK_SIZE) > Px(MAP_COLS * TILE_SIZE)
    \/ ny + Px(TANK_SIZE) > Px(MAP_ROWS * TILE_SIZE)
\* the target box at (nx, ny) covers a cell of grid that is neither empty nor forest
CoversWall(grid, nx, ny) ==
    \E c \in Covered(nx) : \E r \in Covered(ny) :
        /\ c \in 0..(MAP_COLS - 1) /\ r \in 0..(MAP_ROWS - 1)
        /\ grid[r * MAP_COLS + c + 1] \in {1, 2, 3, 5}
\* the target box at (nx, ny) of the tank of row m overlaps another live tank of rows
OverlapsTank(rows, m, nx, ny) ==
    \E j \in 1..Len(rows) :
        /\ j # m /\ rows[j][5]
        /\ nx < rows[j][2] + Px(TANK_SIZE) /\ rows[j][2] < nx + Px(TANK_SIZE)
        /\ ny < rows[j][3] + Px(TANK_SIZE) /\ rows[j][3] < ny + Px(TANK_SIZE)
\* the move e is blocked on the grid
Blocked(grid, e) ==
    \/ LeavesGrid(e.before[e.row][2] + e.dx, e.before[e.row][3] + e.dy)
    \/ CoversWall(grid, e.before[e.row][2] + e.dx, e.before[e.row][3] + e.dy)
    \/ OverlapsTank(e.before, e.row, e.before[e.row][2] + e.dx, e.before[e.row][3] + e.dy)
\* the direction of a displacement
Heading(dx, dy) ==
    IF dy < 0 THEN DIR_UP ELSE IF dy > 0 THEN DIR_DOWN
    ELSE IF dx < 0 THEN DIR_LEFT ELSE DIR_RIGHT

\* C32: a move whose target box leaves the grid, covers an impassable cell or
\* overlaps another live tank leaves every tank, the mover too, where and as
\* it was; any other move changes the place of the mover alone, by the whole
\* displacement. The mover faces the direction of the move when it is tried,
\* and a human that tried a move has its moving flag set after the tick.
BlockedMoveAllOrNothing ==
    [][ticks' # ticks =>
          \A i \in Moves(room') :
              /\ IF Blocked(room.mapData, room'.ev[i])
                 THEN room'.ev[i].after = room'.ev[i].before
                 ELSE /\ room'.ev[i].after[room'.ev[i].row][2]
                            = room'.ev[i].before[room'.ev[i].row][2] + room'.ev[i].dx
                      /\ room'.ev[i].after[room'.ev[i].row][3]
                            = room'.ev[i].before[room'.ev[i].row][3] + room'.ev[i].dy
                      /\ \A j \in 1..Len(room'.ev[i].before) :
                             j # room'.ev[i].row =>
                                 room'.ev[i].after[j] = room'.ev[i].before[j]
              /\ room'.ev[i].before[room'.ev[i].row][4]
                     = Heading(room'.ev[i].dx, room'.ev[i].dy)
              /\ room'.ev[i].after[room'.ev[i].row][4]
                     = Heading(room'.ev[i].dx, room'.ev[i].dy)
              /\ room'.ev[i].kind = "players" =>
                     room'.players[room'.ev[i].row].moving]_vars

\* the corner of the target box of the move logged at i
TargetX(i) == events[i].before[events[i].row][2] + events[i].dx
TargetY(i) == events[i].before[events[i].row][3] + events[i].dy

\* a tick in which the move of one human would have left the grid, the move
\* of another human inside the grid has met a wall, and a move that neither
\* leaves the grid nor meets a wall has met another live tank
BlockedByGridWallAndTank ==
    /\ \E i \in Moves(room) :
           events[i].kind = "players" /\ LeavesGrid(TargetX(i), TargetY(i))
    /\ \E i \in Moves(room) :
           /\ events[i].kind = "players"
           /\ ~LeavesGrid(TargetX(i), TargetY(i))
           /\ CoversWall(room.mapData, TargetX(i), TargetY(i))
    /\ \E i \in Moves(room) :
           /\ ~LeavesGrid(TargetX(i), TargetY(i))
           /\ ~CoversWall(room.mapData, TargetX(i), TargetY(i))
           /\ OverlapsTank(events[i].before, events[i].row, TargetX(i), TargetY(i))

\* ---------------------------------------------------------------- fire gating
\* the shots of human id in the tick that ended in r, as indices into its log
ShotsOf(r, id) ==
    {i \in 1..Len(r.ev) : r.ev[i].t = "fire" /\ r.ev[i].team = "player" /\ r.ev[i].owner = id}

\* C33: in a tick a human fires at most once; it fires only if it is alive
\* when the humans are updated, holds fire and its cooldown has run out by
\* then; the shot adds one bullet with a new identifier that the human owns
\* and leaves its cooldown at the constant of the humans; a human that did
\* not fire has no cooldown set anew, and every bullet of team "player" a
\* tick adds is the shot of a human of the room.
FireGating ==
    [][(ticks' # ticks /\ Ran(room')) =>
          /\ \A k \in 1..Len(room.players) :
                 /\ Cardinality(ShotsOf(room', room.players[k].id)) <= 1
                 /\ \A i \in ShotsOf(room', room.players[k].id) :
                        /\ \/ room.players[k].alive
                           \/ \E j \in 1..(i - 1) :
                                  /\ room'.ev[j].t = "respawn"
                                  /\ room'.ev[j].entity = room.players[k].id
                        /\ room.players[k].inputs.shoot
                        /\ room.players[k].bulletCooldown <= Elapsed(room')
                        /\ room'.players[k].bulletCooldown = PLAYER_COOLDOWN
                        /\ room'.ev[i].bullet >= room.nextBulletId
                        /\ \A j \in Fired(room') :
                               j # i => room'.ev[j].bullet # room'.ev[i].bullet
                 /\ ShotsOf(room', room.players[k].id) = {} =>
                        room'.players[k].bulletCooldown <= room.players[k].bulletCooldown
          /\ \A i \in Fired(room') :
                 room'.ev[i].team = "player" => room'.ev[i].owner \in IdsOf(room.players)
          /\ room'.nextBulletId = room.nextBulletId + Cardinality(Fired(room'))]_vars

\* the only human of the room, holding fire all the time, fires for the
\* second time, after at least one tick in which its cooldown kept it from
\* firing
FiredAgainAfterCooldown ==
    /\ Len(room.players) = 1 /\ room.players[1].inputs.shoot
    /\ ShotsOf(room, room.players[1].id) # {}
    /\ \E i \in ShotsOf(room, room.players[1].id) : events[i].bullet >= 1
    /\ ticks >= 3

\* ----------------------------------------------------------- resolution order
\* the entries of kind t for bullet id in the log of the tick that ended in r
EntriesOf(r, t, id) == {i \in 1..Len(r.ev) : r.ev[i].t = t /\ r.ev[i].bullet = id}
\* tile stops a bullet in a room of mode
Stops(tile, mode) == tile \in {1, 2} \/ (tile = 5 /\ mode = "coop")
\* the tank of room r with identifier id is alive
AliveIn(r, id) ==
    \E k \in {"players", "bots", "enemies"} : \E j \in 1..Len(r[k]) :
        r[k][j].id = id /\ r[k][j].alive

\* the index in the grid of the cell under the centre of bullet b
CentreCell(b) ==
    ((b.y + Px(BULLET_SIZE) \div 2) \div Px(TILE_SIZE)) * MAP_COLS
        + ((b.x + Px(BULLET_SIZE) \div 2) \div Px(TILE_SIZE))

\* the bullets the tick from r to q moves: those live in r and those fired in
\* the tick, each with its identifier, position, direction and speed
Shots(r, q) ==
    {[id |-> r.bullets[n].id, x |-> r.bullets[n].x, y |-> r.bullets[n].y,
      dir |-> r.bullets[n].dir, speed |-> r.bullets[n].speed] : n \in 1..Len(r.bullets)}
      \cup {[id |-> q.ev[i].bullet, x |-> q.ev[i].x, y |-> q.ev[i].y,
              dir |-> q.ev[i].dir, speed |-> Px(BULLET_SPEED)] :
                 i \in {j \in 1..Len(q.ev) : q.ev[j].t = "fire"}}

\* C34: a bullet the tick moves is resolved by the bounds exactly when its
\* move takes it off the grid, and by a tile when its move keeps it on the
\* grid with its centre in a cell that stops it (unless another bullet of
\* the tick has cleared that cell first); a bullet resolved by the
\* bounds has entered no cell and hit nothing; a bullet resolved by a tile has
\* entered a cell that stops it and hit nothing; a bullet resolved by a hit
\* has entered no cell that stops it; every hit resolves its bullet as a hit;
\* and a tank that lay under a bullet stopped by the bounds or a tile, and
\* that no other bullet hit, is alive after the tick.
ResolutionOrder ==
    [][ticks' # ticks =>
          /\ \A b \in Shots(room, room') :
                 Ran(room') =>
                     (BulletOutOfBounds(MoveBullet(b)) <=>
                          \E i \in EntriesOf(room', "resolve", b.id) :
                              room'.ev[i].cause = "bounds")
          /\ \A b \in Shots(room, room') :
                 (/\ Ran(room')
                  /\ ~BulletOutOfBounds(MoveBullet(b))
                  /\ Stops(room.mapData[CentreCell(MoveBullet(b)) + 1], room.mode)) =>
                     \/ \E i \in EntriesOf(room', "resolve", b.id) :
                            room'.ev[i].cause = "tile"
                     \/ /\ room.mapData[CentreCell(MoveBullet(b)) + 1] # 2
                        /\ \E i \in 1..Len(room'.ev) :
                               /\ room'.ev[i].t = "enter"
                               /\ room'.ev[i].bullet # b.id
                               /\ room'.ev[i].cell = CentreCell(MoveBullet(b))
                               /\ Stops(room'.ev[i].tile, room.mode)
          /\ \A i \in 1..Len(room'.ev) : room'.ev[i].t = "resolve" =>
                 /\ room'.ev[i].cause = "bounds" =>
                        /\ EntriesOf(room', "enter", room'.ev[i].bullet) = {}
                        /\ EntriesOf(room', "hit", room'.ev[i].bullet) = {}
                 /\ room'.ev[i].cause = "tile" =>
                        /\ \E j \in EntriesOf(room', "enter", room'.ev[i].bullet) :
                               j < i /\ Stops(room'.ev[j].tile, room.mode)
                        /\ EntriesOf(room', "hit", room'.ev[i].bullet) = {}
                 /\ room'.ev[i].cause = "hit" =>
                        /\ \A j \in EntriesOf(room', "enter", room'.ev[i].bullet) :
                               ~Stops(room'.ev[j].tile, room.mode)
                        /\ \E j \in EntriesOf(room', "hit", room'.ev[i].bullet) : j < i
                 /\ (room'.ev[i].over # "null" /\ HitsOn(room', room'.ev[i].over) = {}) =>
                        AliveIn(room', room'.ev[i].over)
          /\ \A i \in HitsIn(room') :
                 \E j \in EntriesOf(room', "resolve", room'.ev[i].bullet) :
                     room'.ev[j].cause = "hit"]_vars

\* a tick in which a tile has stopped a bullet that lay over a tank its hit
\* resolution would have hit, and the tank is alive
StoppedOverTarget ==
    \E i \in Resolutions :
        /\ events[i].cause = "tile"
        /\ events[i].over # "null"
        /\ AliveIn(room, events[i].over)

\* ------------------------------------------------------- objective by mode
\* the entries of the log of room r in which a bullet enters a base cell
BaseEntries(r) == {i \in 1..Len(r.ev) : r.ev[i].t = "enter" /\ r.ev[i].tile = 5}

\* C35: in a deathmatch room a bullet that enters a base cell leaves the cell
\* as it is and is not stopped by it; the base is never destroyed; a tick
\* ends the match only by a combatant at the frag limit; and the match is
\* never over with "enemies" as the winner.
ObjectiveModeGated ==
    [][room'.isDM =>
          /\ ~room'.baseDestroyed
          /\ ~(room'.gameOver /\ room'.winner = "enemies")
          /\ (room'.gameOver /\ ~room.gameOver) => AtLimit(room') # {}
          /\ ticks' # ticks =>
                 \A i \in BaseEntries(room') :
                     /\ room'.mapData[room'.ev[i].cell + 1] = 5
                     /\ \A j \in EntriesOf(room', "resolve", room'.ev[i].bullet) :
                            room'.ev[j].cause = "hit"]_vars

\* a tick of a deathmatch room in which a bullet has entered a base cell and
\* flown on
BulletThroughBase ==
    /\ room.isDM /\ ~room.gameOver
    /\ \E i \in BaseEntries(room) :
           /\ room.mapData[events[i].cell + 1] = 5
           /\ \E n \in 1..Len(room.bullets) : room.bullets[n].id = events[i].bullet

\* ------------------------------------------------------- spawn accounting
\* C36: in a coop room the on-field counter is the number of enemies in the
\* roster, the quota left is not negative, the quota left and the enemies
\* spawned so far add up to TOTAL_ENEMIES, and a tick changes the roster by
\* the enemies it has spawned less the enemies its bullets have hit.
SpawnAccounting ==
    [][room'.mode = "coop" =>
          /\ room'.enemiesOnField = Len(room'.enemies)
          /\ room'.enemiesRemaining >= 0
          /\ room'.enemiesRemaining + room'.nextEnemyId = TOTAL_ENEMIES
          /\ room'.nextEnemyId <= TOTAL_ENEMIES
          /\ ticks' # ticks =>
                 /\ room'.nextEnemyId - room.nextEnemyId \in {0, 1}
                 /\ Len(room'.enemies) =
                        Len(room.enemies) + (room'.nextEnemyId - room.nextEnemyId)
                            - (IF Ran(room') THEN Cardinality(Kills(room')) ELSE 0)]_vars

\* the quota of a coop room is spent down to the last enemy, and every one
\* of the enemies it brought in has been shot
QuotaSpent ==
    /\ room.mode = "coop"
    /\ room.enemiesRemaining = 0 /\ room.nextEnemyId = TOTAL_ENEMIES
    /\ room.enemiesOnField = 0 /\ Len(room.enemies) = 0

\* ------------------------------------------------------- respawn queue
\* the entries of the respawn queue of room r for the entity id
QueuedAs(r, id) == {q \in 1..Len(r.respawnQueue) : r.respawnQueue[q].entity = id}

\* C37: in a deathmatch room every human or bot of the roster that is not
\* alive has exactly one entry in the respawn queue, no entity of the roster
\* that the queue holds is alive, and the queue holds no entity twice.
RespawnQueueConsistent ==
    room.isDM =>
        /\ \A n \in 1..NumCombatants(room) :
               ~Ent(room, Combatant(room, n)).alive =>
                   Cardinality(QueuedAs(room, Ent(room, Combatant(room, n)).id)) = 1
        /\ \A q \in 1..Len(room.respawnQueue) :
               /\ \A n \in Places(room, room.respawnQueue[q].entity) :
                      ~Ent(room, Combatant(room, n)).alive
               /\ Cardinality(QueuedAs(room, room.respawnQueue[q].entity)) = 1

\* two combatants of a deathmatch room wait in the queue at once, and one of
\* them has been there before
TwoQueued ==
    /\ room.isDM /\ Len(room.respawnQueue) >= 2
    /\ \E n \in 1..NumCombatants(room) :
           /\ ~Ent(room, Combatant(room, n)).alive
           /\ Ent(room, Combatant(room, n)).deaths >= 2

\* ------------------------------------------------------- frags and deaths
\* the scores, and the deaths, of the first n of allCombatants of r, added up
RECURSIVE ScoreSum(_, _)
ScoreSum(r, n) ==
    IF n = 0 THEN 0 ELSE ScoreSum(r, n - 1) + Ent(r, Combatant(r, n)).score
RECURSIVE DeathSum(_, _)
DeathSum(r, n) ==
    IF n = 0 THEN 0 ELSE DeathSum(r, n - 1) + Ent(r, Combatant(r, n)).deaths

\* C38: in a deathmatch room that no participant has left, the scores of the
\* humans and bots add up to what their deaths add up to.
FragConservation ==
    room.isDM =>
        ScoreSum(room, NumCombatants(room)) = DeathSum(room, NumCombatants(room))

\* a deathmatch room in which a human and a bot have each scored, and one
\* combatant has died more than once
HumanAndBotScored ==
    /\ room.isDM
    /\ \E i \in 1..Len(room.players) : room.players[i].score >= 1
    /\ \E i \in 1..Len(room.bots) : room.bots[i].score >= 1
    /\ \E n \in 1..NumCombatants(room) : Ent(room, Combatant(room, n)).deaths >= 2

\* ------------------------------------------------------------ the registry
\* the delays of the two timeouts of server.js, and the step of the clock, in
\* seconds
AUTO_RESET_S    == 35
EMPTY_DESTROY_S == 30
ClockStep       == 5

\* createRoom(name, mapIndex, isSystem): the entry the registry gets.  Its
\* fields are those of server.js (game: room.game is not null; stateInterval:
\* the interval of the state loop is set), sockets (the sockets socket.io
\* holds in the room, in the order they joined), pending (the timeouts that
\* are set and have not fired), now (the clock), and what the properties
\* read: gen (how many GameRoom objects the room has had), fired (the handle of
\* the last timeout that fired), spared (the time at which the last empty
\* timeout a joinRoom has cleared would have fired)
createRoom(isSystem) == [NoEntry EXCEPT !.listed = TRUE, !.isSystem = isSystem]

\* setTimeout(fn, ms) and clearTimeout(h) on the entry e
SetTimeout(e, kind, s) ==
    [e EXCEPT !.pending = @ \cup {[h |-> e.nextTimeout + 1, kind |-> kind,
                                   at |-> e.now + s, gen |-> e.gen]},
              !.nextTimeout = @ + 1]
ClearTimeout(e, h) == [e EXCEPT !.pending = {t \in @ : t.h # h}]
\* the time at which the timeout of handle h fires, 0 when it is not pending
DueOf(e, h) ==
    IF \E t \in e.pending : t.h = h THEN (CHOOSE t \in e.pending : t.h = h).at ELSE 0

\* room.game.stop() of the match r, when the entry e has one: the intervals
\* ts that stay set
StopGame(e, r, ts) == IF e.game /\ r.tickInterval # 0 THEN ts \ {r.tickInterval} ELSE ts

\* destroyUserRoom(room), on the entry
destroyUserRoom(e) ==
    IF e.isSystem \/ ~e.listed THEN e
    ELSE [ClearTimeout(ClearTimeout(e, e.autoResetTimer), e.emptyDestroyTimer)
             EXCEPT !.stateInterval = FALSE, !.listed = FALSE]

\* variant of the step of joinRoom: the empty timeout is left to run
KeepEmptyTimer(e) == e

\* joinRoom: if (room.emptyDestroyTimer) { clearTimeout(...); ... = null }
CancelEmptyTimer(e) ==
    IF e.emptyDestroyTimer # 0
    THEN [ClearTimeout(e, e.emptyDestroyTimer)
             EXCEPT !.emptyDestroyTimer = 0, !.spared = DueOf(e, e.emptyDestroyTimer)]
    ELSE e

\* disconnect, for a user room that has gone empty: the empty timeout is
\* cleared if one is set, and set
ArmEmptyTimer(e) ==
    IF e.isSystem THEN e
    ELSE [SetTimeout(ClearTimeout(e, e.emptyDestroyTimer), "empty", EMPTY_DESTROY_S)
             EXCEPT !.emptyDestroyTimer = e.nextTimeout + 1]

\* socket.on('joinRoom') of a socket that has just connected: the room is
\* looked up, gets a GameRoom if it has none, refuses the socket or adds it,
\* and starts the match and the state loop if the match is not running
SrvJoinRoom(names, vals, maxJoins, maxStarts) ==
    /\ nextSocket < maxJoins
    /\ \E name \in names : \E rnd \in Draws(vals) :
         LET id     == SocketIds[nextSocket + 1]
             g      == IF entry.game THEN room ELSE GameRoom(room.mapIndex, mapTiles)
             made   == [entry EXCEPT !.game = TRUE, !.gen = IF entry.game THEN @ ELSE @ + 1]
             starts == g.tickInterval = 0
         IN  IF ~entry.listed
             THEN UNCHANGED <<room, entry, timers, nextHandle, halted>>
             ELSE IF Len(g.players) >= g.maxPlayers \/ g.gameOver
             THEN /\ room' = joinRoom(g, id, name)
                  /\ entry' = made
                  /\ UNCHANGED <<timers, nextHandle, halted>>
             ELSE /\ starts => nextHandle < maxStarts
                  /\ room' = IF starts THEN start(joinRoom(g, id, name), nextHandle + 1, rnd)
                             ELSE joinRoom(g, id, name)
                  /\ entry' = [CancelEmptyTimer(made)
                                 EXCEPT !.sockets = Append(@, [id |-> id]),
                                        !.stateInterval = IF starts THEN TRUE ELSE @]
                  /\ timers' = IF starts THEN timers \cup {nextHandle + 1} ELSE timers
                  /\ nextHandle' = IF starts THEN nextHandle + 1 ELSE nextHandle
                  /\ halted' = IF starts THEN FALSE ELSE halted
    /\ nextSocket' = nextSocket + 1
    /\ UNCHANGED <<snapshot, ticks, otherRoom, mapTiles>>

\* socket.on('input') of socket k with inp, for <<k, inp>> in pairs
SrvInput(pairs) ==
    /\ entry.listed /\ entry.game
    /\ \E pr \in pairs :
           /\ \E n \in 1..Len(entry.sockets) : entry.sockets[n].id = SocketIds[pr[1]]
           /\ room' = handleInput(room, SocketIds[pr[1]], pr[2])
    /\ UNCHANGED <<timers, nextHandle, nextSocket, snapshot, ticks, halted, otherRoom, mapTiles, entry>>

\* socket.on('disconnect') of the n-th socket of the room
SrvDisconnect ==
    /\ \E n \in 1..Len(entry.sockets) :
         LET id   == entry.sockets[n].id
             left == [entry EXCEPT !.sockets = RemoveAt(@, n)]
             r    == removePlayer(room, id)
         IN  IF ~entry.listed \/ ~entry.game
             THEN /\ entry' = left
                  /\ UNCHANGED <<room, timers, halted>>
             ELSE IF Len(r.players) = 0
             THEN /\ room' = r
                  /\ timers' = StopGame(entry, room, timers)
                  /\ halted' = TRUE
                  /\ entry' = ArmEmptyTimer([left EXCEPT !.stateInterval = FALSE,
                                                         !.game = FALSE])
             ELSE /\ room' = r
                  /\ entry' = left
                  /\ UNCHANGED <<timers, halted>>
    /\ UNCHANGED <<nextHandle, nextSocket, snapshot, ticks, otherRoom, mapTiles>>

\* socket.on('restartGame') of a socket of the room whose match is over
SrvRestartGame(names, vals, maxStarts) ==
    /\ Len(entry.sockets) > 0
    /\ entry.listed /\ entry.game /\ room.gameOver
    /\ nextHandle < maxStarts
    /\ \E name \in names : \E rnd \in Draws(vals) :
           room' = start(Rejoin(GameRoom(room.mapIndex, mapTiles), entry.sockets, 1, name),
                         nextHandle + 1, rnd)
    /\ entry' = [ClearTimeout(entry, entry.autoResetTimer)
                    EXCEPT !.autoResetTimer = 0, !.gen = @ + 1, !.stateInterval = TRUE]
    /\ timers' = StopGame(entry, room, timers) \cup {nextHandle + 1}
    /\ nextHandle' = nextHandle + 1
    /\ halted' = FALSE
    /\ UNCHANGED <<nextSocket, snapshot, ticks, otherRoom, mapTiles>>

\* the interval of startStateLoop fires: the state is sent, and when the
\* match is over the interval is cleared and the reset timeout is set
StateLoop ==
    /\ entry.stateInterval
    /\ entry.game /\ room.gameOver
    /\ entry' = [SetTimeout(entry, "reset", AUTO_RESET_S)
                    EXCEPT !.stateInterval = FALSE,
                           !.autoResetTimer = entry.nextTimeout + 1]
    /\ UNCHANGED <<room, timers, nextHandle, nextSocket, snapshot, ticks, halted, otherRoom, mapTiles>>

\* a reset timeout fires
AutoReset ==
    /\ \E t \in entry.pending :
         /\ t.kind = "reset" /\ t.at <= entry.now
         /\ LET e == [entry EXCEPT !.pending = @ \ {t}, !.fired = t.h]
            IN  IF ~entry.listed
                THEN /\ entry' = e
                     /\ UNCHANGED <<timers, halted>>
                ELSE IF entry.isSystem
                THEN /\ entry' = [e EXCEPT !.game = FALSE, !.autoResetTimer = 0]
                     /\ timers' = StopGame(entry, room, timers)
                     /\ halted' = IF entry.game THEN TRUE ELSE halted
                ELSE /\ entry' = [destroyUserRoom(e) EXCEPT !.autoResetTimer = 0]
                     /\ timers' = StopGame(entry, room, timers)
                     /\ halted' = IF entry.game THEN TRUE ELSE halted
    /\ UNCHANGED <<room, nextHandle, nextSocket, snapshot, ticks, otherRoom, mapTiles>>

\* the room is still empty: rooms[room.id] && (!room.game || no players)
StillEmpty(e, r) == e.listed /\ (~e.game \/ Len(r.players) = 0)

\* an empty timeout fires
EmptyDestroy ==
    /\ \E t \in entry.pending :
         /\ t.kind = "empty" /\ t.at <= entry.now
         /\ LET e == [entry EXCEPT !.pending = @ \ {t}, !.fired = t.h]
            IN  IF StillEmpty(entry, room)
                THEN /\ entry' = [destroyUserRoom(e) EXCEPT !.emptyDestroyTimer = 0]
                     /\ timers' = StopGame(entry, room, timers)
                     /\ halted' = IF entry.game THEN TRUE ELSE halted
                ELSE /\ entry' = [e EXCEPT !.emptyDestroyTimer = 0]
                     /\ UNCHANGED <<timers, halted>>
    /\ UNCHANGED <<room, nextHandle, nextSocket, snapshot, ticks, otherRoom, mapTiles>>

\* the next moment of the clock of e: a step on, or the time at which the
\* next timeout is due if that is earlier
NextMoment(e) ==
    CHOOSE m \in {e.now + ClockStep} \cup {t.at : t \in e.pending} :
        \A n \in {e.now + ClockStep} \cup {t.at : t \in e.pending} : m <= n

\* the clock moves on to the next moment; a timeout that is due fires before
\* it does
Pass(maxClock) ==
    /\ entry.now < maxClock
    /\ \A t \in entry.pending : t.at > entry.now
    /\ entry' = [entry EXCEPT !.now = NextMoment(entry)]
    /\ UNCHANGED <<room, timers, nextHandle, nextSocket, snapshot, ticks, halted, otherRoom, mapTiles>>

SrvJoins  == 3
SrvStarts == 3
SrvTicks  == 2
SrvClock  == 35

\* A system room or a user room of the coop map: sockets join, fire to the
\* right (the first into the base, which ends the match), leave and restart,
\* the match ticks, the state loop runs, the timeouts fire when they are due
\* and the clock moves on.
InitServer ==
    /\ room = NewRoom(0)
    /\ \E isSystem \in BOOLEAN : entry = createRoom(isSystem)
    /\ timers = {}
    /\ nextHandle = 0
    /\ nextSocket = 0
    /\ snapshot = NoSnapshot
    /\ ticks = 0
    /\ halted = FALSE
    /\ otherRoom = NoRoom
    /\ mapTiles = MAPS[1].tiles

NextServer ==
    \/ SrvJoinRoom({""}, {0}, SrvJoins, SrvStarts)
    \/ SrvInput((1..SrvJoins) \X {RightFire})
    \/ SrvDisconnect
    \/ SrvRestartGame({""}, {0}, SrvStarts)
    \/ Tick({500}, {0}, SrvTicks)
    \/ StateLoop
    \/ AutoReset
    \/ EmptyDestroy
    \/ Pass(SrvClock)

SpecServer == InitServer /\ [][NextServer]_vars

\* the timeout t of the entry fires in the step
Fires(t) == t \in entry.pending /\ t \notin entry'.pending /\ entry'.fired = t.h
\* the empty timeouts that are pending in the entry e
EmptyTimeouts(e) == {t \in e.pending : t.kind = "empty"}

\* C39 as stated: the step in which a reset timeout fires leaves a match of
\* the room that is not over as it is, running and in its room, and leaves
\* the room of such a match in the registry.
ResetOnlyFinishedMatch ==
    [][\A t \in entry.pending :
           (/\ t.kind = "reset" /\ Fires(t)
            /\ entry.listed /\ entry.game /\ ~room.gameOver) =>
               /\ entry'.listed /\ entry'.game
               /\ timers' = timers]_vars

\* C40: no step takes a system room out of the registry; the step in which
\* an empty timeout fires, EMPTY_DESTROY_S after it was set, takes the room
\* out of the registry exactly when the room is still empty; a joinRoom that
\* adds a socket leaves no empty timeout pending; and an empty timeout is
\* pending only for a room without a match, one at most.
RegistryLifetime ==
    [][/\ (entry.isSystem /\ entry.listed) => entry'.listed
       /\ entry'.isSystem = entry.isSystem
       /\ \A t \in EmptyTimeouts(entry) :
              Fires(t) =>
                  /\ t.at = entry.now
                  /\ entry.listed =>
                         (~entry'.listed <=> (~entry.game \/ Len(room.players) = 0))
       /\ Len(entry'.sockets) > Len(entry.sockets) =>
              /\ EmptyTimeouts(entry') = {}
              /\ entry'.emptyDestroyTimer = 0
       /\ EmptyTimeouts(entry') # {} =>
              /\ ~entry'.game /\ ~entry'.isSystem
              /\ Cardinality(EmptyTimeouts(entry')) = 1]_vars

\* a user room that went empty and was joined again has its match and its
\* player at the time at which the empty timeout would have fired
JoinedInTime ==
    /\ ~entry.isSystem /\ entry.listed /\ entry.game
    /\ Len(room.players) > 0
    /\ entry.spared > 0 /\ entry.now >= entry.spared
====
